---- MODULE Spec2Model ----
(***************************************************************************)
(* SwasthyaSathi backend: the document pipeline (routes/document.routes.ts *)
(* and services/document.service.ts with services/s3.service.ts) as a      *)
(* state machine over the PostgreSQL tables users, documents and           *)
(* document_ai_analysis and the S3 bucket.                                 *)
(*                                                                         *)
(* Request handlers are async functions on one Node.js event loop: every   *)
(* `await` is a point where another handler or background task may run,    *)
(* so each handler is a sequence of atomic steps, one per awaited call.    *)
(* A transaction that runs on a dedicated client (pool.connect() ...       *)
(* BEGIN ... COMMIT) becomes visible to the others at its COMMIT.          *)
(*                                                                         *)
(* Sizes are bytes.  BIGINT columns (users.storage_used,                   *)
(* users.storage_quota, documents.file_size) are integers in the database; *)
(* the pg driver hands BIGINT (int8) values to JavaScript as decimal       *)
(* strings (database/pool.ts registers no type parser, and                 *)
(* mapDbDocumentToDocument has to parseInt file_size), so the model keeps  *)
(* the integer in the table and converts with DecStr where the code reads  *)
(* a row.                                                                  *)
(***************************************************************************)
EXTENDS Integers, Sequences, FiniteSets, TLC

\* ------------------------------------------------------------------ bounds
\* number of S3 uploads (and so of document ids) one run may perform
MaxDocs == 3
\* number of HTTP requests in flight at the same time
MaxProcs == 2
\* number of documents uploaded while requests of two accounts are followed
EditDocs == 2
\* number of documents uploaded while background tasks are followed
EnrichDocs == 1
\* number of documents uploaded while authentication is followed
AuthDocs == 1
\* number of word annotations the Vision API returns after the full text
MaxRegions == 2

\* --------------------------------------------------------------- constants
\* document.service.ts: const MAX_FILE_SIZE = 5 * 1024 * 1024
MAX_FILE_SIZE == 5 * 1024 * 1024
\* config.upload.maxFileSize (README.md, config/index.ts): '10485760'
MULTER_MAX_FILE_SIZE == 10 * 1024 * 1024
\* schema.sql: storage_quota BIGINT DEFAULT 104857600.  The model gives every
\* user one tenth of it (10485760, the same leading decimal digits), so that
\* MaxDocs files of at most MAX_FILE_SIZE bytes can reach the quota.
DEFAULT_STORAGE_QUOTA == 104857600 \div 10

Users == {"u1", "u2"}
DocIds == 1 .. MaxDocs
Procs == 1 .. MaxProcs

\* JavaScript undefined / SQL NULL
Undefined == "undefined"
Null == "NULL"

\* file sizes a client may send: below the 5 MB ceiling, above it, and above
\* the multer limit
FileSizes == {1000000, 5000000, MAX_FILE_SIZE + 1, MULTER_MAX_FILE_SIZE + 1}
\* MIME types a client may send
MimeTypes == {"image/jpeg", "image/gif", "application/pdf", "image/tiff", "text/plain"}

\* shared/src/types.ts enum DocumentType (two of its seven members)
DocumentTypes == {"other", "xray"}

\* ----------------------------------------------------- decimal-string values
\* String(n) for a non-negative integer: the sequence of its decimal digits
RECURSIVE DecStr(_)
DecStr(n) == IF n < 10 THEN <<n>> ELSE Append(DecStr(n \div 10), n % 10)

\* Number(s) / parseInt(s) of a string of decimal digits
RECURSIVE ParseInt(_)
ParseInt(s) ==
    IF Len(s) = 0 THEN 0
    ELSE 10 * ParseInt(SubSeq(s, 1, Len(s) - 1)) + s[Len(s)]

\* JavaScript a > b on two strings: lexicographic on code units (the digits
\* '0'..'9' are ordered like their values); a proper prefix is the smaller
RECURSIVE StrGreater(_, _)
StrGreater(a, b) ==
    IF Len(a) = 0 THEN FALSE
    ELSE IF Len(b) = 0 THEN TRUE
    ELSE IF a[1] # b[1] THEN a[1] > b[1]
    ELSE StrGreater(Tail(a), Tail(b))

Max(a, b) == IF a > b THEN a ELSE b

\* ---------------------------------------------------------- formatFileSize
\* formatFileSize(bytes): <<value in hundredths of the unit, unit>>, the
\* unit index i = floor(log(bytes) / log(1024)) and the value rounded to two
\* decimals.  A negative argument makes Math.log return NaN, and the result
\* is the text "NaN undefined".
FormatUnit(bytes) ==
    IF bytes < 1024 THEN 0
    ELSE IF bytes < 1024 * 1024 THEN 1
    ELSE IF bytes < 1024 * 1024 * 1024 THEN 2 ELSE 3

Pow1024(i) == IF i = 0 THEN 1 ELSE IF i = 1 THEN 1024 ELSE IF i = 2 THEN 1048576 ELSE 1073741824

formatFileSize(bytes) ==
    IF bytes = 0 THEN <<0, "Bytes">>
    ELSE IF bytes < 0 THEN <<0, "NaN undefined">>
    ELSE LET i == FormatUnit(bytes)
             k == Pow1024(i)
             whole == bytes \div k
             rest == bytes % k
         IN  << whole * 100 + (rest * 200 + k) \div (2 * k),
                <<"Bytes", "KB", "MB", "GB">>[i + 1] >>

\* ------------------------------------------------------------ storage keys
\* s3.service.ts: `${userId}/${uuidv4()}${ext}` and
\* `${userId}/thumbnails/${uuidv4()}_thumb${ext}`; k stands for the uuid
FileKey(u, k) == <<u, "file", k>>
ThumbKey(u, k) == <<u, "thumbnails", k>>
\* `https://${BUCKET_NAME}.s3.${region}.amazonaws.com/${key}`
UrlOf(key) == <<"https://swasthyasathi-documents.s3.">> \o key
\* the empty string '' and SQL NULL / undefined, as urls
EmptyUrl == <<"">>
NullUrl == <<>>
\* S3Service.extractFileNameFromUrl: the part after the host
extractFileNameFromUrl(url) == Tail(url)
\* S3Service.isImageType: mimeType.startsWith('image/')
isImageType(mimeType) == mimeType \in {"image/jpeg", "image/gif", "image/tiff"}

\* --------------------------------------------------------- upload filters
\* config.upload.allowedMimeTypes, used by the multer fileFilter
ConfigAllowedMimeTypes == {"image/jpeg", "image/png", "image/jpg", "application/pdf", "image/tiff"}
\* DocumentService.uploadDocument: const allowedTypes
allowedTypes == {"image/jpeg", "image/jpg", "image/png", "image/gif", "application/pdf"}

\* multer({limits, fileFilter}): TRUE when upload.single('file') hands the
\* request on; otherwise it calls next(err) and the global error handler of
\* server.ts answers
multerAccepts(file) ==
    /\ file.mimetype \in ConfigAllowedMimeTypes
    /\ file.size <= MULTER_MAX_FILE_SIZE

\* a quota check that lets every upload pass
checkStorageQuotaAlways(used, quota, fileSize) == [allowed |-> TRUE, message |-> <<>>]

\* DocumentService.checkStorageQuota on the row of the user.  storage_used
\* and storage_quota arrive as strings: `storage_used + fileSize` is a string
\* concatenation, `newStorageUsed > storage_quota` compares two strings, and
\* `storage_quota - storage_used` converts both to numbers.
checkStorageQuota(used, quota, fileSize) ==
    LET storage_used == DecStr(used)
        storage_quota == DecStr(quota)
        newStorageUsed == storage_used \o DecStr(fileSize)
    IN  IF StrGreater(newStorageUsed, storage_quota)
        THEN [allowed |-> FALSE,
              message |-> << formatFileSize(ParseInt(storage_quota) - ParseInt(storage_used)),
                             formatFileSize(ParseInt(storage_quota)) >>]
        ELSE [allowed |-> TRUE, message |-> <<>>]

\* ------------------------------------------------------------------- state
VARIABLES
    storage_used,   \* users.storage_used, per user
    storage_quota,  \* users.storage_quota, per user
    documents,      \* table documents: id -> row, for the ids that have a row
    analysis,       \* table document_ai_analysis: document_id -> row
    objects,        \* the S3 bucket: key -> number of bytes
    nextId,         \* next unused uuid
    pc,             \* per request slot: where its handler stands
    loc,            \* per request slot: the handler's local variables
    resp,           \* per request slot: the HTTP response it sent last
    ocr,            \* per document id: where processDocumentWithOCR stands
    ai,             \* per document id: where processDocumentWithAI stands
    uploaded,       \* per document id: the Document the upload answered with
    edited,         \* the document ids an updateDocument has written to
    users,          \* table users: id -> phone_number, password_hash, full_name
    profiles,       \* table user_profiles: the user ids that have a row
    client,         \* the mobile ApiService: AsyncStorage token, last answer
    ocrCall,        \* a call of OcrService.extractText: arguments and result
    scanner,        \* the scanner screen: PhotoPreview state, compressImage call
    request,        \* per request slot: the route and Authorization header received
    authReq         \* per request slot: a register or login request being handled

vars == <<storage_used, storage_quota, documents, analysis, objects, nextId,
          pc, loc, resp, ocr, ai, uploaded, edited,
          users, profiles, client, ocrCall, scanner, request, authReq>>

\* what the document handlers and tasks never touch
sideVars == <<users, profiles, client, ocrCall, scanner, request, authReq>>

\* --------------------------------------------------------------- responses
NoDocument == [id |-> 0]
NoResponse == [status |-> 0, success |-> FALSE, code |-> "none", message |-> <<>>, data |-> NoDocument]
ErrorResponse(status, code, message) ==
    [status |-> status, success |-> FALSE, code |-> code, message |-> message, data |-> NoDocument]
SuccessResponse(status, data) ==
    [status |-> status, success |-> TRUE, code |-> "", message |-> <<>>, data |-> data]

NoFile == [size |-> 0, mimetype |-> ""]
NoMeta == [type |-> Undefined, title |-> Undefined, description |-> Undefined,
           processWithOCR |-> FALSE, processWithAI |-> FALSE]
NoUpdate == [title |-> Undefined, description |-> Undefined, notes |-> Undefined, type |-> Undefined]
NoLoc == [op |-> "", user |-> "", doc |-> 0, file |-> NoFile, meta |-> NoMeta, upd |-> NoUpdate,
          fileUrl |-> NullUrl, thumbnailUrl |-> NullUrl, fileSize |-> <<>>]

\* what a handler keeps of its request: the authenticated user (req.userId),
\* the uploaded file and form fields, or the :id parameter and the body
UploadRequest(u, file, meta) == [NoLoc EXCEPT !.op = "upload", !.user = u, !.file = file, !.meta = meta]
DocRequest(op, u, d, upd) == [NoLoc EXCEPT !.op = op, !.user = u, !.doc = d, !.upd = upd]

\* a request slot takes a new request when no handler is running in it
Free(p) == pc[p] \in {"idle", "done"}

\* the row as the pg driver returns it: BIGINT file_size as a string
DbRow(row) == [row EXCEPT !.file_size = DecStr(row.file_size)]

\* DocumentService.mapDbDocumentToDocument(dbDoc); joined is the set of
\* document_ai_analysis rows the LEFT JOIN found (empty or one row)
mapDbDocumentToDocument(id, dbDoc, joined) ==
    [id |-> id,
     userId |-> dbDoc.user_id,
     type |-> dbDoc.type,
     title |-> dbDoc.title,
     description |-> dbDoc.description,
     notes |-> dbDoc.notes,
     fileUrl |-> dbDoc.file_url,
     thumbnailUrl |-> dbDoc.thumbnail_url,
     fileSize |-> ParseInt(dbDoc.file_size),
     mimeType |-> dbDoc.mime_type,
     status |-> dbDoc.status,
     ocrStatus |-> dbDoc.ocr_status,
     aiAnalysis |-> IF \E a \in joined : a.extracted_text \notin {Null, ""} \/ a.summary \notin {Null, ""}
                    THEN joined ELSE {}]

\* a background task: where it stands and what the external call returned
NoTask == [pc |-> "none", result |-> ""]
StartTask == [pc |-> "start", result |-> ""]

\* ---------------------------------------------------------------- accounts
\* the user_profiles row AuthService.register creates
NoProfile == [blood_group |-> Null]

\* text as the characters it is made of
Digits == {"0", "1", "2", "3", "4", "5", "6", "7", "8", "9"}
Whitespace == {" "}
Nepal(last) == <<"+", "9", "7", "7", "9", "8", "0", "0", "0", "0", "0", "0", "0", last>>

\* String.prototype.trim, the sanitizer .trim() of express-validator
RECURSIVE trim(_)
trim(str) ==
    IF str = <<>> THEN str
    ELSE IF Head(str) \in Whitespace THEN trim(Tail(str))
    ELSE IF str[Len(str)] \in Whitespace THEN trim(SubSeq(str, 1, Len(str) - 1))
    ELSE str

\* /^\+977\d{10}$/
MatchesNepal(str) ==
    /\ Len(str) = 14
    /\ SubSeq(str, 1, 4) = <<"+", "9", "7", "7">>
    /\ \A i \in 5..14 : str[i] \in Digits

\* phoneValidation: the sanitized value and whether the chain reports an error
phoneValidation(phoneNumber) ==
    [value |-> trim(phoneNumber), error |-> ~MatchesNepal(trim(phoneNumber))]

\* passwordValidation: the messages of the chain that apply
passwordValidation(password) ==
    (IF Len(password) < 8 THEN {"Password must be at least 8 characters"} ELSE {})
    \cup (IF \A i \in 1..Len(password) : password[i] \notin Digits
          THEN {"Password must contain at least one number"} ELSE {})

\* AuthService.validatePassword
validatePassword(password) ==
    /\ Len(password) >= 8
    /\ \E i \in 1..Len(password) : password[i] \in Digits

\* AuthService.validatePhoneNumber: spaces and dashes are removed first
validatePhoneNumber(phoneNumber) ==
    LET NotSeparator(c) == c \notin Whitespace \cup {"-"}
    IN  MatchesNepal(SelectSeq(phoneNumber, NotSeparator))

\* bcrypt.hash and bcrypt.compare
bcryptHash(password) == <<"bcrypt", password>>
bcryptCompare(password, hash) == hash = <<"bcrypt", password>>

\* the accounts that exist before the first request
SeedPassword == <<"s", "e", "c", "r", "e", "t", "1", "2">>
FullName == "Asha"
NewUser(phoneNumber, password) ==
    [phone_number |-> phoneNumber, password_hash |-> bcryptHash(password),
     full_name |-> FullName, gender |-> Null, blood_type |-> Null]
SeedUser(last) == NewUser(Nepal(last), SeedPassword)
NewUserIds == {"u3", "u4"}

InitAccounts ==
    /\ users = ("u1" :> SeedUser("1")) @@ ("u2" :> SeedUser("2"))
    /\ profiles = [u \in Users |-> NoProfile]

\* what /api/auth answers
NoAuthResponse == [status |-> 0, code |-> "none", message |-> "", details |-> {}, user |-> "",
                   token |-> <<>>]
AuthError(status, code, details) ==
    [status |-> status, code |-> code, message |-> "", details |-> details, user |-> "",
     token |-> <<>>]
NoAuthRequest == [pc |-> "idle", op |-> "", body |-> <<>>, phoneNumber |-> <<>>, password |-> <<>>,
                  userId |-> "", resp |-> NoAuthResponse]
InitAuthReq == authReq = [p \in Procs |-> NoAuthRequest]
AuthFree(p) == authReq[p].pc \in {"idle", "done"}
AuthFrame == UNCHANGED <<documents, analysis, objects, nextId, pc, loc, resp, ocr, ai, uploaded,
                         edited, client, ocrCall, scanner, request>>

\* ---------------------------------------------------------- authentication
\* a JWT: the payload userId, the key that signed it, whether exp has passed
Token(userId, key, expired) == [userId |-> userId, key |-> key, expired |-> expired]

\* req.headers['authorization']: absent, or the words of its value
NoHeader == [present |-> FALSE, words |-> <<>>]
Header(words) == [present |-> TRUE, words |-> words]

\* a verification that trusts every payload
jwtDecode(token) == token.userId # ""

\* jwt.verify(token, JWT_SECRET) returns the payload; FALSE when it throws
jwtVerify(token) == token.key = "JWT_SECRET" /\ ~token.expired

\* authHeader && authHeader.split(' ')[1]
TokenOf(authHeader) ==
    IF authHeader.present /\ Len(authHeader.words) >= 2 THEN <<authHeader.words[2]>> ELSE <<>>

\* authenticateToken: next |-> TRUE with req.userId set, or the answer sent
authenticateToken(authHeader) ==
    LET token == TokenOf(authHeader)
    IN  IF token = <<>>
        THEN [next |-> FALSE, userId |-> "", status |-> 401, code |-> "UNAUTHORIZED"]
        ELSE IF jwtVerify(token[1])
        THEN [next |-> TRUE, userId |-> token[1].userId, status |-> 0, code |-> ""]
        ELSE [next |-> FALSE, userId |-> "", status |-> 403, code |-> "FORBIDDEN"]

NoRequest == [route |-> "", authorization |-> NoHeader]
InitRequest == request = [p \in Procs |-> NoRequest]

\* the mobile ApiService: AsyncStorage[TOKEN_KEY] (empty or one token), the
\* call it is waiting in, the credentials it sent, the last status it saw
NoClient == [token |-> <<>>, state |-> "idle", credentials |-> <<>>, status |-> 0]
InitClient == client = NoClient
\* a call of OcrService.extractText: the MIME type, what the Vision API did,
\* and the value the call returned
NoOcrResult == [success |-> FALSE, code |-> "none", retryable |-> FALSE,
                text |-> <<>>, confidence |-> 0, language |-> ""]
NoVision == [kind |-> "none"]
NoOcrCall == [mimeType |-> "", vision |-> NoVision, result |-> NoOcrResult]
InitOcrCall == ocrCall = NoOcrCall
\* the scanner: the photo taken (its real size), the state of PhotoPreview,
\* the quality compressImage is called with, the compressions it made, and
\* the image handed to onUsePhoto
NoScanner == [mode |-> "camera", photoSize |-> 0, processedUri |-> "", processedSize |-> 0,
              originalSize |-> 0, compressedSize |-> 0, isProcessing |-> FALSE, alert |-> "",
              quality |-> 0, attempts |-> <<>>, used |-> <<>>]
InitScanner == scanner = NoScanner

InitDocuments ==
    /\ storage_used = [u \in Users |-> 0]
    /\ storage_quota = [u \in Users |-> DEFAULT_STORAGE_QUOTA]
    /\ documents = << >>
    /\ analysis = << >>
    /\ objects = << >>
    /\ nextId = 1
    /\ pc = [p \in Procs |-> "idle"]
    /\ loc = [p \in Procs |-> NoLoc]
    /\ resp = [p \in Procs |-> NoResponse]
    /\ ocr = [d \in DocIds |-> NoTask]
    /\ ai = [d \in DocIds |-> NoTask]
    /\ uploaded = [d \in DocIds |-> NoDocument]
    /\ edited = {}

Init == InitDocuments /\ InitAccounts /\ InitAuthReq /\ InitRequest /\ InitClient /\ InitOcrCall /\ InitScanner

\* ids reserved by uploads that passed the checks and have not reached S3
Reserved == Cardinality({p \in Procs : pc[p] = "upload_s3"})

\* ------------------------------------------------- POST /api/documents/upload
\* router.post('/upload') up to and including the quota check of
\* DocumentService.uploadDocument (its first query)
UploadStart(p, u, file, meta) ==
    /\ UNCHANGED sideVars
    /\ Free(p)
    /\ UNCHANGED <<storage_used, storage_quota, documents, analysis, objects, nextId, ocr, ai, uploaded, edited>>
    /\ IF ~multerAccepts(file)
       THEN /\ resp' = [resp EXCEPT ![p] = ErrorResponse(500, "SERVER_ERROR", <<>>)]
            /\ pc' = [pc EXCEPT ![p] = "done"]
            /\ loc' = [loc EXCEPT ![p] = UploadRequest(u, file, meta)]
       ELSE IF file.size > MAX_FILE_SIZE
       THEN /\ resp' = [resp EXCEPT ![p] =
                            ErrorResponse(400, "FILE_TOO_LARGE", <<formatFileSize(file.size)>>)]
            /\ pc' = [pc EXCEPT ![p] = "done"]
            /\ loc' = [loc EXCEPT ![p] = UploadRequest(u, file, meta)]
       ELSE IF file.mimetype \notin allowedTypes
       THEN /\ resp' = [resp EXCEPT ![p] = ErrorResponse(400, "UNSUPPORTED_FILE_TYPE", <<>>)]
            /\ pc' = [pc EXCEPT ![p] = "done"]
            /\ loc' = [loc EXCEPT ![p] = UploadRequest(u, file, meta)]
       ELSE LET quotaCheck == checkStorageQuota(storage_used[u], storage_quota[u], file.size)
            IN  IF ~quotaCheck.allowed
                THEN /\ resp' = [resp EXCEPT ![p] =
                                    ErrorResponse(400, "STORAGE_QUOTA_EXCEEDED", quotaCheck.message)]
                     /\ pc' = [pc EXCEPT ![p] = "done"]
                     /\ loc' = [loc EXCEPT ![p] = UploadRequest(u, file, meta)]
                ELSE /\ nextId + Reserved <= MaxDocs
                     /\ pc' = [pc EXCEPT ![p] = "upload_s3"]
                     /\ loc' = [loc EXCEPT ![p] = UploadRequest(u, file, meta)]
                     /\ resp' = [resp EXCEPT ![p] = NoResponse]

\* the SELECT of checkStorageQuota throws: its own catch answers
\* {allowed: false, message: 'Failed to check storage quota'}, which
\* uploadDocument returns as STORAGE_QUOTA_EXCEEDED
UploadQuotaCheckFails(p, u, file, meta) ==
    /\ UNCHANGED sideVars
    /\ Free(p)
    /\ multerAccepts(file)
    /\ file.size <= MAX_FILE_SIZE
    /\ file.mimetype \in allowedTypes
    /\ resp' = [resp EXCEPT ![p] =
                   ErrorResponse(400, "STORAGE_QUOTA_EXCEEDED", <<"Failed to check storage quota">>)]
    /\ pc' = [pc EXCEPT ![p] = "done"]
    /\ loc' = [loc EXCEPT ![p] = UploadRequest(u, file, meta)]
    /\ UNCHANGED <<storage_used, storage_quota, documents, analysis, objects, nextId, ocr, ai, uploaded, edited>>

\* client.query('BEGIN') and s3Service.uploadDocument: the original is put
\* under a fresh key; for an image a thumbnail is put too, unless generating
\* or putting it fails, which generateAndUploadThumbnail answers with ''
UploadS3(p, thumbOk) ==
    /\ UNCHANGED sideVars
    /\ pc[p] = "upload_s3"
    /\ LET u == loc[p].user
           k == nextId
           file == loc[p].file
           withThumb == isImageType(file.mimetype) /\ thumbOk
       IN  /\ objects' = IF withThumb
                         THEN objects @@ (FileKey(u, k) :> file.size) @@ (ThumbKey(u, k) :> 0)
                         ELSE objects @@ (FileKey(u, k) :> file.size)
           /\ loc' = [loc EXCEPT ![p].doc = k,
                                 ![p].fileUrl = UrlOf(FileKey(u, k)),
                                 ![p].thumbnailUrl =
                                     IF ~isImageType(file.mimetype) THEN NullUrl
                                     ELSE IF thumbOk THEN UrlOf(ThumbKey(u, k)) ELSE EmptyUrl,
                                 ![p].fileSize = DecStr(file.size)]
    /\ nextId' = nextId + 1
    /\ pc' = [pc EXCEPT ![p] = "upload_db"]
    /\ UNCHANGED <<storage_used, storage_quota, documents, analysis, resp, ocr, ai, uploaded, edited>>

\* s3Service.uploadDocument throws: catch, ROLLBACK, SERVER_ERROR
UploadS3Fails(p) ==
    /\ UNCHANGED sideVars
    /\ pc[p] = "upload_s3"
    /\ pc' = [pc EXCEPT ![p] = "done"]
    /\ resp' = [resp EXCEPT ![p] = ErrorResponse(500, "SERVER_ERROR", <<>>)]
    /\ UNCHANGED <<storage_used, storage_quota, documents, analysis, objects, nextId, ocr, ai, uploaded, edited, loc>>

\* the row INSERT INTO documents writes
NewDocumentRow(l) ==
    [user_id |-> l.user,
     type |-> IF l.meta.type \in {Undefined, ""} THEN "other" ELSE l.meta.type,
     title |-> IF l.meta.title \in {Undefined, ""} THEN "Untitled Document" ELSE l.meta.title,
     description |-> IF l.meta.description \in {Undefined, ""} THEN Null ELSE l.meta.description,
     notes |-> Null,
     file_url |-> l.fileUrl,
     thumbnail_url |-> IF l.thumbnailUrl \in {NullUrl, EmptyUrl} THEN NullUrl ELSE l.thumbnailUrl,
     file_size |-> ParseInt(l.fileSize),
     mime_type |-> l.file.mimetype,
     status |-> "pending_processing",
     ocr_status |-> Null]

\* INSERT INTO documents, UPDATE users SET storage_used = storage_used + $1,
\* COMMIT; then the two fire-and-forget tasks are started and 201 is sent
UploadCommit(p) ==
    /\ UNCHANGED sideVars
    /\ pc[p] = "upload_db"
    /\ LET l == loc[p]
           d == l.doc
           row == NewDocumentRow(l)
           document == mapDbDocumentToDocument(d, DbRow(row), {})
       IN  /\ documents' = documents @@ (d :> row)
           /\ storage_used' = [storage_used EXCEPT ![l.user] = @ + ParseInt(l.fileSize)]
           /\ ocr' = [ocr EXCEPT ![d] = IF l.meta.processWithOCR THEN StartTask ELSE @]
           /\ ai' = [ai EXCEPT ![d] = IF l.meta.processWithAI THEN StartTask ELSE @]
           /\ uploaded' = [uploaded EXCEPT ![d] = document]
           /\ resp' = [resp EXCEPT ![p] = SuccessResponse(201, document)]
    /\ pc' = [pc EXCEPT ![p] = "done"]
    /\ UNCHANGED <<storage_quota, analysis, objects, nextId, loc, edited>>

\* a statement of the transaction throws: catch, ROLLBACK, SERVER_ERROR; the
\* object put before is left in the bucket
UploadDbFails(p) ==
    /\ UNCHANGED sideVars
    /\ pc[p] = "upload_db"
    /\ pc' = [pc EXCEPT ![p] = "done"]
    /\ resp' = [resp EXCEPT ![p] = ErrorResponse(500, "SERVER_ERROR", <<>>)]
    /\ UNCHANGED <<storage_used, storage_quota, documents, analysis, objects, nextId, ocr, ai, uploaded, edited, loc>>

\* a lookup by id alone
OwnedByAnyone(d, userId) == {x \in DOMAIN documents : x = d}
\* the documents row with id d that belongs to userId, as the queries
\* `WHERE id = $1 AND user_id = $2` find it: a set with no or one id
OwnedBy(d, userId) == {x \in DOMAIN documents : x = d /\ documents[x].user_id = userId}

\* the LEFT JOIN document_ai_analysis ON d.id = da.document_id
Joined(d) == {analysis[x] : x \in {y \in DOMAIN analysis : y = d}}

\* a function without the key x
Without(f, x) == [y \in DOMAIN f \ {x} |-> f[y]]

\* ------------------------------------------------- DELETE /api/documents/:id
\* router.delete('/:id') and DocumentService.deleteDocument up to its SELECT
DeleteStart(p, u, d) ==
    /\ UNCHANGED sideVars
    /\ Free(p)
    /\ UNCHANGED <<storage_used, storage_quota, documents, analysis, objects, nextId, ocr, ai, uploaded, edited>>
    /\ IF OwnedBy(d, u) = {}
       THEN /\ resp' = [resp EXCEPT ![p] = ErrorResponse(404, "NOT_FOUND", <<>>)]
            /\ pc' = [pc EXCEPT ![p] = "done"]
            /\ loc' = [loc EXCEPT ![p] = DocRequest("delete", u, d, NoUpdate)]
       ELSE LET document == DbRow(documents[d])
            IN  /\ pc' = [pc EXCEPT ![p] = "delete_s3"]
                /\ loc' = [loc EXCEPT ![p] = [DocRequest("delete", u, d, NoUpdate) EXCEPT
                                                 !.fileUrl = document.file_url,
                                                 !.thumbnailUrl = document.thumbnail_url,
                                                 !.fileSize = document.file_size]]
                /\ resp' = [resp EXCEPT ![p] = NoResponse]

\* a deleteThumbnail that rethrows: the handler ends in its catch
DeleteS3ThumbnailThrows(p, thumbOk) ==
    /\ UNCHANGED sideVars
    /\ pc[p] = "delete_s3"
    /\ objects' = Without(objects, extractFileNameFromUrl(loc[p].fileUrl))
    /\ pc' = [pc EXCEPT ![p] = "done"]
    /\ resp' = [resp EXCEPT ![p] = ErrorResponse(500, "SERVER_ERROR", <<>>)]
    /\ UNCHANGED <<storage_used, storage_quota, documents, analysis, nextId, loc, ocr, ai, uploaded, edited>>
\* client.query('BEGIN'), s3Service.deleteDocument(file_url) and, when the
\* row has a thumbnail_url, s3Service.deleteThumbnail, whose error is
\* swallowed (thumbOk = FALSE)
DeleteS3(p, thumbOk) ==
    /\ UNCHANGED sideVars
    /\ pc[p] = "delete_s3"
    /\ LET l == loc[p]
           afterFile == Without(objects, extractFileNameFromUrl(l.fileUrl))
       IN  objects' = IF l.thumbnailUrl \notin {NullUrl, EmptyUrl} /\ thumbOk
                      THEN Without(afterFile, extractFileNameFromUrl(l.thumbnailUrl))
                      ELSE afterFile
    /\ pc' = [pc EXCEPT ![p] = "delete_db"]
    /\ UNCHANGED <<storage_used, storage_quota, documents, analysis, nextId, loc, resp, ocr, ai, uploaded, edited>>

\* s3Service.deleteDocument throws: catch, ROLLBACK, SERVER_ERROR
DeleteS3Fails(p) ==
    /\ UNCHANGED sideVars
    /\ pc[p] = "delete_s3"
    /\ pc' = [pc EXCEPT ![p] = "done"]
    /\ resp' = [resp EXCEPT ![p] = ErrorResponse(500, "SERVER_ERROR", <<>>)]
    /\ UNCHANGED <<storage_used, storage_quota, documents, analysis, objects, nextId, ocr, ai, uploaded, edited, loc>>

\* UPDATE users SET storage_used = GREATEST(storage_used - $1, 0)
\* a decrement that lets the counter go below zero
DecrementStorageNoFloor(used, fileSize) == used - fileSize
DecrementStorage(used, fileSize) == Max(used - fileSize, 0)

\* DELETE FROM documents WHERE id = $1 (ON DELETE CASCADE removes the
\* analysis row), the UPDATE of users and COMMIT
DeleteCommit(p) ==
    /\ UNCHANGED sideVars
    /\ pc[p] = "delete_db"
    /\ LET l == loc[p]
       IN  /\ documents' = Without(documents, l.doc)
           /\ analysis' = Without(analysis, l.doc)
           /\ storage_used' = [storage_used EXCEPT ![l.user] = DecrementStorage(@, ParseInt(l.fileSize))]
    /\ pc' = [pc EXCEPT ![p] = "done"]
    /\ resp' = [resp EXCEPT ![p] = SuccessResponse(200, NoDocument)]
    /\ UNCHANGED <<storage_quota, objects, nextId, ocr, ai, uploaded, edited, loc>>

\* a statement of the transaction throws: catch, ROLLBACK, SERVER_ERROR; the
\* objects deleted before stay deleted
DeleteDbFails(p) ==
    /\ UNCHANGED sideVars
    /\ pc[p] = "delete_db"
    /\ pc' = [pc EXCEPT ![p] = "done"]
    /\ resp' = [resp EXCEPT ![p] = ErrorResponse(500, "SERVER_ERROR", <<>>)]
    /\ UNCHANGED <<storage_used, storage_quota, documents, analysis, objects, nextId, ocr, ai, uploaded, edited, loc>>

\* ---------------------------------------------------- GET /api/documents/:id
\* DocumentService.getDocument(documentId, userId) as a function of the tables
getDocument(d, u) ==
    IF OwnedBy(d, u) = {}
    THEN ErrorResponse(404, "NOT_FOUND", <<>>)
    ELSE SuccessResponse(200, mapDbDocumentToDocument(d, DbRow(documents[d]), Joined(d)))

\* router.get('/:id')
GetDocument(p, u, d) ==
    /\ UNCHANGED sideVars
    /\ Free(p)
    /\ resp' = [resp EXCEPT ![p] = getDocument(d, u)]
    /\ pc' = [pc EXCEPT ![p] = "done"]
    /\ loc' = [loc EXCEPT ![p] = DocRequest("get", u, d, NoUpdate)]
    /\ UNCHANGED <<storage_used, storage_quota, documents, analysis, objects, nextId, ocr, ai, uploaded, edited>>

\* ---------------------------------------------------- PUT /api/documents/:id
\* the SET list DocumentService.updateDocument builds: the fields of
\* updateData that are not undefined
ProvidedFields(upd) == {f \in {"title", "description", "notes", "type"} : upd[f] # Undefined}

\* router.put('/:id') and DocumentService.updateDocument up to its check query
UpdateStart(p, u, d, upd) ==
    /\ UNCHANGED sideVars
    /\ Free(p)
    /\ UNCHANGED <<storage_used, storage_quota, documents, analysis, objects, nextId, ocr, ai, uploaded, edited>>
    /\ IF OwnedBy(d, u) = {}
       THEN /\ resp' = [resp EXCEPT ![p] = ErrorResponse(404, "NOT_FOUND", <<>>)]
            /\ pc' = [pc EXCEPT ![p] = "done"]
            /\ loc' = [loc EXCEPT ![p] = DocRequest("update", u, d, upd)]
       ELSE /\ pc' = [pc EXCEPT ![p] = IF ProvidedFields(upd) = {} THEN "update_get" ELSE "update_db"]
            /\ loc' = [loc EXCEPT ![p] = DocRequest("update", u, d, upd)]
            /\ resp' = [resp EXCEPT ![p] = NoResponse]

\* an UPDATE that writes all four columns, provided or not
UpdatedRowAll(row, upd) ==
    [row EXCEPT !.title = upd.title, !.description = upd.description,
                !.notes = upd.notes, !.type = upd.type]
\* the row after UPDATE documents SET <provided fields>
UpdatedRow(row, upd) ==
    [row EXCEPT !.title = IF upd.title # Undefined THEN upd.title ELSE @,
                !.description = IF upd.description # Undefined THEN upd.description ELSE @,
                !.notes = IF upd.notes # Undefined THEN upd.notes ELSE @,
                !.type = IF upd.type # Undefined THEN upd.type ELSE @]

\* UPDATE documents SET ... WHERE id = $n AND user_id = $n+1
UpdateWrite(p) ==
    /\ UNCHANGED sideVars
    /\ pc[p] = "update_db"
    /\ LET l == loc[p]
       IN  documents' = [x \in DOMAIN documents |->
                            IF x \in OwnedBy(l.doc, l.user)
                            THEN UpdatedRow(documents[x], l.upd) ELSE documents[x]]
    /\ edited' = edited \cup OwnedBy(loc[p].doc, loc[p].user)
    /\ pc' = [pc EXCEPT ![p] = "update_get"]
    /\ UNCHANGED <<storage_used, storage_quota, analysis, objects, nextId, loc, resp, ocr, ai, uploaded>>

\* the closing this.getDocument(documentId, userId), whose answer is returned
UpdateGet(p) ==
    /\ UNCHANGED sideVars
    /\ pc[p] = "update_get"
    /\ resp' = [resp EXCEPT ![p] = getDocument(loc[p].doc, loc[p].user)]
    /\ pc' = [pc EXCEPT ![p] = "done"]
    /\ UNCHANGED <<storage_used, storage_quota, documents, analysis, objects, nextId, loc, ocr, ai, uploaded, edited>>

\* ------------------------------------------------------ background tasks
\* The tasks talk to the database through pool.query only, BEGIN and COMMIT
\* included: every statement runs on whichever pooled connection is free.
\* A statement is modelled as taking effect when it runs, except for the
\* outcomes OcrInsertUncommitted and AiInsertUncommitted below.  A statement
\* fails when it violates a constraint of the schema: the UNIQUE document_id
\* of document_ai_analysis, or its foreign key to documents; the UPDATE of a
\* catch block may fail after such a failure (OcrCatchFails, AiCatchFails).
\* a table without the two constraints
InsertAnalysisNeverFails(d) == FALSE
\* INSERT INTO document_ai_analysis violates UNIQUE(document_id) or the
\* foreign key to documents
InsertAnalysisFails(d) == d \in DOMAIN analysis \/ d \notin DOMAIN documents

\* an UPDATE that writes the value to status as well
SetColumnAndStatus(d, column, value) ==
    [x \in DOMAIN documents |->
        IF x = d THEN [documents[x] EXCEPT ![column] = value, !.status = value] ELSE documents[x]]
\* UPDATE documents SET <column> = value WHERE id = d (no row: no effect)
SetColumn(d, column, value) ==
    [x \in DOMAIN documents |-> IF x = d THEN [documents[x] EXCEPT ![column] = value] ELSE documents[x]]

\* OcrService.isSupportedImageType
isSupportedImageType(mimeType) ==
    mimeType \in {"image/jpeg", "image/jpg", "image/png", "image/gif", "image/webp", "image/bmp", "image/tiff"}

TaskVarsUnchanged ==
    UNCHANGED <<storage_used, storage_quota, objects, nextId, pc, loc, resp, uploaded, edited, sideVars>>

\* processDocumentWithOCR: UPDATE documents SET ocr_status = 'processing'
OcrMarkProcessing(d) ==
    /\ ocr[d].pc = "start"
    /\ documents' = SetColumn(d, "ocr_status", "processing")
    /\ ocr' = [ocr EXCEPT ![d].pc = "extract"]
    /\ UNCHANGED <<analysis, ai>>
    /\ TaskVarsUnchanged

\* ocrService.extractText(fileBuffer, mimeType): a text, the empty text, or
\* an error result (always an error result for a MIME type that is no
\* supported image)
OcrExtract(d, outcome) ==
    /\ ocr[d].pc = "extract"
    /\ isSupportedImageType(uploaded[d].mimeType) \/ outcome = "error"
    /\ ocr' = [ocr EXCEPT ![d] = IF outcome = "error"
                                 THEN [pc |-> "failed_result", result |-> ""]
                                 ELSE [pc |-> "select", result |-> outcome]]
    /\ UNCHANGED <<documents, analysis, ai>>
    /\ TaskVarsUnchanged

\* !ocrResult.success: UPDATE documents SET ocr_status = 'failed'; return
OcrResultFailed(d) ==
    /\ ocr[d].pc = "failed_result"
    /\ documents' = SetColumn(d, "ocr_status", "failed")
    /\ ocr' = [ocr EXCEPT ![d].pc = "done"]
    /\ UNCHANGED <<analysis, ai>>
    /\ TaskVarsUnchanged

\* BEGIN; SELECT id FROM document_ai_analysis WHERE document_id = $1
OcrSelect(d) ==
    /\ ocr[d].pc = "select"
    /\ ocr' = [ocr EXCEPT ![d].pc = IF d \in DOMAIN analysis THEN "update" ELSE "insert"]
    /\ UNCHANGED <<documents, analysis, ai>>
    /\ TaskVarsUnchanged

\* the text a successful extractText returned
OcrText(result) == IF result = "empty" THEN "" ELSE "ocr text"

\* existingAnalysis.rows.length > 0: UPDATE document_ai_analysis SET
\* extracted_text = $1 WHERE document_id = $2
OcrUpdateAnalysis(d) ==
    /\ ocr[d].pc = "update"
    /\ analysis' = [x \in DOMAIN analysis |->
                       IF x = d THEN [analysis[x] EXCEPT !.extracted_text = OcrText(ocr[d].result)]
                       ELSE analysis[x]]
    /\ ocr' = [ocr EXCEPT ![d].pc = "complete"]
    /\ UNCHANGED <<documents, ai>>
    /\ TaskVarsUnchanged

\* else: INSERT INTO document_ai_analysis (document_id, extracted_text)
OcrInsertAnalysis(d) ==
    /\ ocr[d].pc = "insert"
    /\ IF InsertAnalysisFails(d)
       THEN /\ ocr' = [ocr EXCEPT ![d].pc = "catch"]
            /\ UNCHANGED analysis
       ELSE /\ analysis' = analysis @@ (d :> [extracted_text |-> OcrText(ocr[d].result),
                                              summary |-> Null, insights |-> Null])
            /\ ocr' = [ocr EXCEPT ![d].pc = "complete"]
    /\ UNCHANGED <<documents, ai>>
    /\ TaskVarsUnchanged

\* The pool (max 20 connections) gives each pool.query whichever connection
\* is free.  BEGIN opens a transaction on the connection it runs on; an
\* INSERT that runs on that connection stays uncommitted when the UPDATE of
\* documents and COMMIT run on another one, and is rolled back when the
\* pool closes the idle connection: the task goes on, the row is never seen
OcrInsertUncommitted(d) ==
    /\ ocr[d].pc = "insert"
    /\ ~InsertAnalysisFails(d)
    /\ ocr' = [ocr EXCEPT ![d].pc = "complete"]
    /\ UNCHANGED <<documents, analysis, ai>>
    /\ TaskVarsUnchanged

\* an OCR completion that marks the document processed
OcrCompleteProcessed(d) ==
    /\ ocr[d].pc = "complete"
    /\ documents' = SetColumn(d, "status", "processed")
    /\ ocr' = [ocr EXCEPT ![d].pc = "done"]
    /\ UNCHANGED <<analysis, ai>>
    /\ TaskVarsUnchanged
\* UPDATE documents SET ocr_status = 'completed'; COMMIT
OcrComplete(d) ==
    /\ ocr[d].pc = "complete"
    /\ documents' = SetColumn(d, "ocr_status", "completed")
    /\ ocr' = [ocr EXCEPT ![d].pc = "done"]
    /\ UNCHANGED <<analysis, ai>>
    /\ TaskVarsUnchanged

\* catch: UPDATE documents SET ocr_status = 'failed'; throw (logged by the
\* .catch of uploadDocument)
OcrCatch(d) ==
    /\ ocr[d].pc = "catch"
    /\ documents' = SetColumn(d, "ocr_status", "failed")
    /\ ocr' = [ocr EXCEPT ![d].pc = "done"]
    /\ UNCHANGED <<analysis, ai>>
    /\ TaskVarsUnchanged

\* catch, after a statement of the storing block has failed: the UPDATE of
\* the catch fails too (the pooled connection that ran BEGIN and the failed
\* statement rejects every statement until a ROLLBACK, which is never sent),
\* the task rejects and ocr_status stays as it was
OcrCatchFails(d) ==
    /\ ocr[d].pc = "catch"
    /\ ocr' = [ocr EXCEPT ![d].pc = "done"]
    /\ UNCHANGED <<documents, analysis, ai>>
    /\ TaskVarsUnchanged

\* processDocumentWithAI: anthropic.messages.create returns a reply that is
\* a JSON object, a reply that is prose, or the JSON text null, or throws.
\* JSON.parse('null') is null, and `analysis.extractedText` then throws a
\* TypeError before BEGIN
AiCall(d, outcome) ==
    /\ ai[d].pc = "start"
    /\ ai' = [ai EXCEPT ![d] = IF outcome = "throws"
                               THEN [pc |-> "catch", result |-> ""]
                               ELSE IF outcome = "null"
                               THEN [pc |-> "catch", result |-> outcome]
                               ELSE [pc |-> "insert", result |-> outcome]]
    /\ UNCHANGED <<documents, analysis, ocr>>
    /\ TaskVarsUnchanged

\* the row built from `analysis`: JSON.parse(responseText), or for a reply
\* that does not parse {extractedText: '', summary: responseText, insights: []}
\* with `analysis.extractedText || null`
AiAnalysisRow(result) ==
    IF result = "json"
    THEN [extracted_text |-> "ai text", summary |-> "ai summary", insights |-> "ai insights"]
    ELSE [extracted_text |-> Null, summary |-> "raw reply", insights |-> "{}"]

\* BEGIN; INSERT INTO document_ai_analysis (document_id, extracted_text,
\* summary, insights)
AiInsertAnalysis(d) ==
    /\ ai[d].pc = "insert"
    /\ IF InsertAnalysisFails(d)
       THEN /\ ai' = [ai EXCEPT ![d].pc = "catch"]
            /\ UNCHANGED analysis
       ELSE /\ analysis' = analysis @@ (d :> AiAnalysisRow(ai[d].result))
            /\ ai' = [ai EXCEPT ![d].pc = "complete"]
    /\ UNCHANGED <<documents, ocr>>
    /\ TaskVarsUnchanged

\* the INSERT runs in the transaction BEGIN opened on its connection, the
\* UPDATE of documents and COMMIT on another connection
AiInsertUncommitted(d) ==
    /\ ai[d].pc = "insert"
    /\ ~InsertAnalysisFails(d)
    /\ ai' = [ai EXCEPT ![d].pc = "complete"]
    /\ UNCHANGED <<documents, analysis, ocr>>
    /\ TaskVarsUnchanged

\* an AI completion that marks the OCR track completed
AiCompleteOcrCompleted(d) ==
    /\ ai[d].pc = "complete"
    /\ documents' = SetColumn(d, "ocr_status", "completed")
    /\ ai' = [ai EXCEPT ![d].pc = "done"]
    /\ UNCHANGED <<analysis, ocr>>
    /\ TaskVarsUnchanged
\* UPDATE documents SET status = 'processed'; COMMIT
AiComplete(d) ==
    /\ ai[d].pc = "complete"
    /\ documents' = SetColumn(d, "status", "processed")
    /\ ai' = [ai EXCEPT ![d].pc = "done"]
    /\ UNCHANGED <<analysis, ocr>>
    /\ TaskVarsUnchanged

\* catch: UPDATE documents SET status = 'failed'; throw
AiCatch(d) ==
    /\ ai[d].pc = "catch"
    /\ documents' = SetColumn(d, "status", "failed")
    /\ ai' = [ai EXCEPT ![d].pc = "done"]
    /\ UNCHANGED <<analysis, ocr>>
    /\ TaskVarsUnchanged

\* catch, after the INSERT of the storing block has failed: the UPDATE of
\* the catch fails too, the task rejects and status stays as it was
AiCatchFails(d) ==
    /\ ai[d].pc = "catch"
    /\ ai[d].result \in {"json", "prose"}
    /\ ai' = [ai EXCEPT ![d].pc = "done"]
    /\ UNCHANGED <<documents, analysis, ocr>>
    /\ TaskVarsUnchanged

\* ------------------------------------------------------------- /api/auth
\* AuthService.generateToken(userId)
generateToken(userId) == <<[userId |-> userId, key |-> "JWT_SECRET", expired |-> FALSE]>>

\* router.post('/register'): the validation chains, then AuthService.register
\* up to client.query('BEGIN')
RegisterStart(p, phoneNumber, password) ==
    LET phone == phoneValidation(phoneNumber)
        errors == (IF phone.error THEN {"Phone number must be in format +977XXXXXXXXXX"} ELSE {})
                  \cup passwordValidation(password)
        req == [NoAuthRequest EXCEPT !.op = "register", !.body = <<phoneNumber, password>>,
                                     !.phoneNumber = phone.value, !.password = password]
        answer(r) == authReq' = [authReq EXCEPT ![p] = [req EXCEPT !.pc = "done", !.resp = r]]
    IN  /\ AuthFree(p)
        /\ AuthFrame
        /\ UNCHANGED <<users, profiles, storage_used, storage_quota>>
        /\ IF errors # {}
           THEN answer(AuthError(400, "VALIDATION_ERROR", errors))
           ELSE IF ~validatePassword(password)
           THEN answer(AuthError(400, "WEAK_PASSWORD", {}))
           ELSE IF ~validatePhoneNumber(phone.value)
           THEN answer(AuthError(400, "VALIDATION_ERROR", {}))
           ELSE authReq' = [authReq EXCEPT ![p] = [req EXCEPT !.pc = "register_select"]]

\* SELECT id FROM users WHERE phone_number = $1, then bcrypt.hash
RegisterSelect(p) ==
    /\ authReq[p].pc = "register_select"
    /\ AuthFrame
    /\ UNCHANGED <<users, profiles, storage_used, storage_quota>>
    /\ IF \E u \in DOMAIN users : users[u].phone_number = authReq[p].phoneNumber
       THEN authReq' = [authReq EXCEPT ![p].pc = "done",
                                       ![p].resp = AuthError(409, "DUPLICATE_PHONE", {})]
       ELSE authReq' = [authReq EXCEPT ![p].pc = "register_insert"]

\* the requests whose transaction holds an uncommitted users row
Inserting == {q \in Procs : authReq[q].pc \in {"register_profile", "register_commit"}}

\* INSERT INTO users: it waits while another transaction holds an
\* uncommitted row with the phone number, and violates users.phone_number
\* UNIQUE when a committed row has it; the catch block rolls back and
\* rethrows, and the route answers 500
RegisterInsertUser(p) ==
    /\ authReq[p].pc = "register_insert"
    /\ \A q \in Inserting : authReq[q].phoneNumber # authReq[p].phoneNumber
    /\ AuthFrame
    /\ UNCHANGED <<users, profiles, storage_used, storage_quota>>
    /\ IF \E u \in DOMAIN users : users[u].phone_number = authReq[p].phoneNumber
       THEN authReq' = [authReq EXCEPT ![p].pc = "done",
                                       ![p].resp = AuthError(500, "SERVER_ERROR", {})]
       ELSE \E userId \in NewUserIds \ (DOMAIN users \cup {authReq[q].userId : q \in Inserting}) :
                authReq' = [authReq EXCEPT ![p].pc = "register_profile", ![p].userId = userId]

\* INSERT INTO user_profiles (user_id)
RegisterInsertProfile(p) ==
    /\ authReq[p].pc = "register_profile"
    /\ AuthFrame
    /\ UNCHANGED <<users, profiles, storage_used, storage_quota>>
    /\ authReq' = [authReq EXCEPT ![p].pc = "register_commit"]

\* COMMIT: the users row (storage_used DEFAULT 0, storage_quota DEFAULT) and
\* the user_profiles row become visible; 201 with the user and a token
RegisterCommit(p) ==
    LET userId == authReq[p].userId
    IN  /\ authReq[p].pc = "register_commit"
        /\ AuthFrame
        /\ users' = users @@ (userId :> NewUser(authReq[p].phoneNumber, authReq[p].password))
        /\ profiles' = profiles @@ (userId :> NoProfile)
        /\ storage_used' = storage_used @@ (userId :> 0)
        /\ storage_quota' = storage_quota @@ (userId :> DEFAULT_STORAGE_QUOTA)
        /\ authReq' = [authReq EXCEPT ![p].pc = "done",
                                      ![p].resp = [status |-> 201, code |-> "", details |-> {},
                                                   message |-> "", user |-> userId, token |-> generateToken(userId)]]

\* a login that tells an unknown phone number from a wrong password
loginRevealing(phoneNumber, password) ==
    LET found == {u \in DOMAIN users : users[u].phone_number = phoneNumber}
    IN  IF ~validatePhoneNumber(phoneNumber) \/ found = {}
        THEN [AuthError(404, "NOT_FOUND", {}) EXCEPT !.message = "User not found"]
        ELSE LET userId == CHOOSE u \in found : TRUE
             IN  IF ~bcryptCompare(password, users[userId].password_hash)
                 THEN [AuthError(401, "INVALID_CREDENTIALS", {}) EXCEPT
                          !.message = "Invalid password"]
                 ELSE [status |-> 200, code |-> "", details |-> {},
                       message |-> "", user |-> userId, token |-> generateToken(userId)]
\* AuthService.login after the validation chains of router.post('/login')
login(phoneNumber, password) ==
    LET found == {u \in DOMAIN users : users[u].phone_number = phoneNumber}
    IN  IF ~validatePhoneNumber(phoneNumber)
        THEN [AuthError(401, "INVALID_CREDENTIALS", {}) EXCEPT
                 !.message = "Invalid phone number or password"]
        ELSE IF found = {}
        THEN [AuthError(401, "INVALID_CREDENTIALS", {}) EXCEPT
                 !.message = "Invalid phone number or password"]
        ELSE LET userId == CHOOSE u \in found : TRUE
             IN  IF ~bcryptCompare(password, users[userId].password_hash)
                 THEN [AuthError(401, "INVALID_CREDENTIALS", {}) EXCEPT
                          !.message = "Invalid phone number or password"]
                 ELSE [status |-> 200, code |-> "", details |-> {},
                       message |-> "", user |-> userId, token |-> generateToken(userId)]

\* router.post('/login')
Login(p, phoneNumber, password) ==
    LET phone == phoneValidation(phoneNumber)
        errors == (IF phone.error THEN {"Phone number must be in format +977XXXXXXXXXX"} ELSE {})
                  \cup (IF password = <<>> THEN {"Password is required"} ELSE {})
        req == [NoAuthRequest EXCEPT !.op = "login", !.body = <<phoneNumber, password>>,
                                     !.phoneNumber = phone.value, !.password = password,
                                     !.pc = "done"]
    IN  /\ AuthFree(p)
        /\ AuthFrame
        /\ UNCHANGED <<users, profiles, storage_used, storage_quota>>
        /\ authReq' = [authReq EXCEPT ![p] =
                          [req EXCEPT !.resp = IF errors # {}
                                               THEN AuthError(400, "VALIDATION_ERROR", errors)
                                               ELSE login(phone.value, password)]]

\* ------------------------------------------------------ the other endpoints
\* the data of a response that is not one document
ListData(rows) == [id |-> 0, rows |-> rows]

\* DocumentService.getUserDocuments(userId)
getUserDocuments(u) ==
    SuccessResponse(200, ListData({mapDbDocumentToDocument(d, DbRow(documents[d]), Joined(d)) :
                                      d \in {e \in DOMAIN documents : documents[e].user_id = u}}))

\* router.get('/my-documents')
GetUserDocuments(p, u) ==
    /\ UNCHANGED sideVars
    /\ Free(p)
    /\ resp' = [resp EXCEPT ![p] = getUserDocuments(u)]
    /\ pc' = [pc EXCEPT ![p] = "done"]
    /\ loc' = [loc EXCEPT ![p] = DocRequest("list", u, 0, NoUpdate)]
    /\ UNCHANGED <<storage_used, storage_quota, documents, analysis, objects, nextId, ocr, ai, uploaded, edited>>

\* DocumentService.getStorageInfo(userId): the columns as the driver returns
\* them, their difference, and used / quota * 100 as a fraction
getStorageInfo(u) ==
    IF u \notin DOMAIN storage_used
    THEN ErrorResponse(404, "NOT_FOUND", <<>>)
    ELSE SuccessResponse(200, [id |-> 0,
                               used |-> DecStr(storage_used[u]),
                               quota |-> DecStr(storage_quota[u]),
                               remaining |-> storage_quota[u] - storage_used[u],
                               usedPercentage |-> <<storage_used[u] * 100, storage_quota[u]>>])

\* router.get('/storage/info')
GetStorageInfo(p, u) ==
    /\ UNCHANGED sideVars
    /\ Free(p)
    /\ resp' = [resp EXCEPT ![p] = getStorageInfo(u)]
    /\ pc' = [pc EXCEPT ![p] = "done"]
    /\ loc' = [loc EXCEPT ![p] = DocRequest("storage", u, 0, NoUpdate)]
    /\ UNCHANGED <<storage_used, storage_quota, documents, analysis, objects, nextId, ocr, ai, uploaded, edited>>

documentVars == <<storage_used, storage_quota, documents, analysis, objects, nextId, ocr, ai, uploaded, edited>>

\* ProfileService.mapDbUserToUser(dbUser)
mapDbUserToUser(id, dbUser) ==
    [id |-> id,
     phoneNumber |-> dbUser.phone_number,
     fullName |-> dbUser.full_name,
     gender |-> dbUser.gender,
     bloodType |-> dbUser.blood_type]

\* ProfileService.getProfile(userId)
getProfile(u) ==
    IF u \notin DOMAIN users
    THEN ErrorResponse(404, "NOT_FOUND", <<>>)
    ELSE SuccessResponse(200, mapDbUserToUser(u, users[u]))

\* router.get('/') of /api/profile
GetProfile(p, u) ==
    /\ Free(p)
    /\ resp' = [resp EXCEPT ![p] = getProfile(u)]
    /\ pc' = [pc EXCEPT ![p] = "done"]
    /\ loc' = [loc EXCEPT ![p] = DocRequest("profile", u, 0, NoUpdate)]
    /\ UNCHANGED documentVars
    /\ UNCHANGED sideVars

\* the validation chains of router.put('/') of /api/profile
BloodTypes == {"A+", "A-", "B+", "B-", "AB+", "AB-", "O+", "O-"}
ProfileBodyValid(body) ==
    /\ body.fullName # ""
    /\ body.gender \in {"male", "female", "other"}
    /\ body.bloodType # Undefined => body.bloodType \in BloodTypes

\* router.put('/') of /api/profile with ProfileService.updateProfile(userId,
\* data): the UPDATE writes data.bloodType || null
UpdateProfile(p, u, body) ==
    /\ Free(p)
    /\ pc' = [pc EXCEPT ![p] = "done"]
    /\ loc' = [loc EXCEPT ![p] = DocRequest("profile_update", u, 0, NoUpdate)]
    /\ UNCHANGED documentVars
    /\ UNCHANGED <<profiles, client, ocrCall, scanner, request, authReq>>
    /\ IF ~ProfileBodyValid(body)
       THEN /\ resp' = [resp EXCEPT ![p] = ErrorResponse(400, "VALIDATION_ERROR", <<>>)]
            /\ UNCHANGED users
       ELSE IF body.fullName = "" \/ body.gender = ""
       THEN /\ resp' = [resp EXCEPT ![p] = ErrorResponse(400, "VALIDATION_ERROR", <<>>)]
            /\ UNCHANGED users
       ELSE IF u \notin DOMAIN users
       THEN /\ resp' = [resp EXCEPT ![p] = ErrorResponse(404, "NOT_FOUND", <<>>)]
            /\ UNCHANGED users
       ELSE LET row == [users[u] EXCEPT !.full_name = body.fullName,
                                        !.gender = body.gender,
                                        !.blood_type = IF body.bloodType = Undefined
                                                       THEN Null ELSE body.bloodType]
            IN  /\ users' = [users EXCEPT ![u] = row]
                /\ resp' = [resp EXCEPT ![p] = SuccessResponse(200, mapDbUserToUser(u, row))]

\* app.get('/health')
Health(p) ==
    /\ Free(p)
    /\ resp' = [resp EXCEPT ![p] = SuccessResponse(200, [id |-> 0, status |-> "ok"])]
    /\ pc' = [pc EXCEPT ![p] = "done"]
    /\ loc' = [loc EXCEPT ![p] = NoLoc]
    /\ UNCHANGED documentVars
    /\ UNCHANGED sideVars

\* a request reaches the server: its route and its Authorization header
Receive(p, route, authHeader) ==
    /\ Free(p)
    /\ request' = [request EXCEPT ![p] = [route |-> route, authorization |-> authHeader]]
    /\ UNCHANGED <<pc, loc, resp, users, profiles, client, ocrCall, scanner, authReq>>
    /\ UNCHANGED documentVars

\* authenticateToken answers 401 or 403 and the route handler never runs
Unauthenticated(p, route) ==
    LET auth == authenticateToken(request[p].authorization)
    IN  /\ Free(p)
        /\ request[p].route = route
        /\ ~auth.next
        /\ resp' = [resp EXCEPT ![p] = ErrorResponse(auth.status, auth.code, <<>>)]
        /\ pc' = [pc EXCEPT ![p] = "done"]
        /\ loc' = [loc EXCEPT ![p] = NoLoc]
        /\ UNCHANGED documentVars
        /\ UNCHANGED sideVars

\* authenticateToken calls next() with req.userId set from the payload
Authenticated(p, route) ==
    /\ request[p].route = route
    /\ authenticateToken(request[p].authorization).next

\* req.userId
UserId(p) == authenticateToken(request[p].authorization).userId

\* ------------------------------------------------------- mobile ApiService
\* ApiService.isAuthenticated(): !!token
isAuthenticated == client.token # <<>>

\* the request interceptor: Authorization: Bearer <token> when one is stored
RequestInterceptor ==
    IF client.token # <<>> THEN Header(<<"Bearer", client.token[1]>>) ELSE NoHeader

\* the response interceptor: a 401 answer removes the stored token
ResponseInterceptor(status) == IF status = 401 THEN <<>> ELSE client.token

\* a method of ApiService other than register and login sends its request
\* through this.client; the server takes it into slot p
ClientSend(p, route) ==
    /\ client.state = "idle"
    /\ Free(p)
    /\ client' = [client EXCEPT !.state = "waiting"]
    /\ request' = [request EXCEPT ![p] = [route |-> route, authorization |-> RequestInterceptor]]
    /\ pc' = [pc EXCEPT ![p] = "idle"]
    /\ loc' = [loc EXCEPT ![p] = NoLoc]
    /\ resp' = [resp EXCEPT ![p] = NoResponse]
    /\ UNCHANGED documentVars
    /\ UNCHANGED <<users, profiles, ocrCall, scanner, authReq>>

\* the answer arrives and passes the response interceptor
ClientReceive(p) ==
    /\ client.state = "waiting"
    /\ pc[p] = "done"
    /\ client' = [client EXCEPT !.state = "idle",
                                !.status = resp[p].status,
                                !.token = ResponseInterceptor(resp[p].status)]
    /\ UNCHANGED documentVars
    /\ UNCHANGED <<pc, loc, resp, users, profiles, ocrCall, scanner, request, authReq>>

\* ApiService.login(credentials) posts to /auth/login
ClientLogin(p, phoneNumber, password) ==
    /\ client.state = "idle"
    /\ AuthFree(p)
    /\ client' = [client EXCEPT !.state = "login", !.credentials = <<phoneNumber, password>>]
    /\ authReq' = [authReq EXCEPT ![p] = NoAuthRequest]
    /\ UNCHANGED documentVars
    /\ UNCHANGED <<pc, loc, resp, users, profiles, ocrCall, scanner, request>>

\* the answer of /auth/login: an error passes the response interceptor, a
\* token in the answer is stored
ClientLoginReceive(p) ==
    /\ client.state = "login"
    /\ authReq[p].pc = "done"
    /\ client' = [client EXCEPT !.state = "idle",
                                !.status = authReq[p].resp.status,
                                !.token = IF authReq[p].resp.status >= 400
                                          THEN ResponseInterceptor(authReq[p].resp.status)
                                          ELSE IF authReq[p].resp.token # <<>>
                                          THEN authReq[p].resp.token
                                          ELSE client.token]
    /\ UNCHANGED documentVars
    /\ UNCHANGED <<pc, loc, resp, users, profiles, ocrCall, scanner, request, authReq>>

\* ApiService.logout()
ClientLogout ==
    /\ client.state = "idle"
    /\ client' = [client EXCEPT !.token = <<>>]
    /\ UNCHANGED documentVars
    /\ UNCHANGED <<pc, loc, resp, users, profiles, ocrCall, scanner, request, authReq>>

\* expiresIn passes: jwt.verify no longer accepts the stored token
TokenExpires ==
    /\ client.token # <<>>
    /\ ~client.token[1].expired
    /\ client' = [client EXCEPT !.token = <<[client.token[1] EXCEPT !.expired = TRUE]>>]
    /\ UNCHANGED documentVars
    /\ UNCHANGED <<pc, loc, resp, users, profiles, ocrCall, scanner, request, authReq>>

\* -------------------------------------------------- OcrService.extractText
\* confidences are percentages: a.confidence of the API times 100
RECURSIVE SumConfidence(_)
SumConfidence(annotations) ==
    IF annotations = <<>> THEN 0
    ELSE Head(annotations).confidence + SumConfidence(Tail(annotations))

\* OcrService.calculateAverageConfidence(annotations)
calculateAverageConfidence(annotations) ==
    LET Positive(a) == a.confidence > 0
        confidences == SelectSeq(annotations, Positive)
    IN  IF Len(annotations) = 0 THEN 100
        ELSE IF Len(confidences) = 0 THEN 100
        ELSE SumConfidence(confidences) \div Len(confidences)

\* OcrService.isRetryableError(error)
isRetryableError(code) == code \in {"UNAVAILABLE", "DEADLINE_EXCEEDED", "RESOURCE_EXHAUSTED"}

OcrFailure(code, retryable) == [NoOcrResult EXCEPT !.code = code, !.retryable = retryable]
OcrSuccess(text, confidence, language) ==
    [success |-> TRUE, code |-> "", retryable |-> FALSE,
     text |-> text, confidence |-> confidence, language |-> language]

\* OcrService.extractText(buffer, mimeType); vision is what
\* visionClient.textDetection raced against the timeout came to
extractText(mimeType, vision) ==
    IF ~isSupportedImageType(mimeType) THEN OcrFailure("UNSUPPORTED_TYPE", FALSE)
    ELSE IF vision.kind = "timeout" THEN OcrFailure("TIMEOUT", TRUE)
    ELSE IF vision.kind = "throws"
    THEN IF vision.code = 8 \/ vision.quota THEN OcrFailure("QUOTA_EXCEEDED", FALSE)
         ELSE OcrFailure("INTERNAL_ERROR", TRUE)
    ELSE IF vision.kind = "error" THEN OcrFailure("API_ERROR", isRetryableError(vision.code))
    ELSE LET textAnnotations == vision.textAnnotations
         IN  IF Len(textAnnotations) = 0
             THEN OcrSuccess(<<>>, 0, "en")
             ELSE OcrSuccess(textAnnotations[1].description,
                             calculateAverageConfidence(Tail(textAnnotations)),
                             IF textAnnotations[1].locale = "" THEN "en"
                             ELSE textAnnotations[1].locale)

\* the call returns
ExtractText ==
    /\ ocrCall.vision # NoVision
    /\ ocrCall.result = NoOcrResult
    /\ ocrCall' = [ocrCall EXCEPT !.result = extractText(ocrCall.mimeType, ocrCall.vision)]
    /\ UNCHANGED documentVars
    /\ UNCHANGED <<pc, loc, resp, users, profiles, client, scanner, request, authReq>>

\* --------------------------------------------------- the document scanner
\* imageUtils: qualities in percent
INITIAL_COMPRESSION_QUALITY == 85
MIN_COMPRESSION_QUALITY == 60

\* PhotoPreview mounts with photoUri: useState initial values, and the effect
\* that calls processImage
Preview(photoSize) ==
    [NoScanner EXCEPT !.mode = "measure", !.photoSize = photoSize,
                      !.processedUri = "photoUri", !.processedSize = photoSize,
                      !.isProcessing = TRUE]

ScannerFrame ==
    /\ UNCHANGED documentVars
    /\ UNCHANGED <<pc, loc, resp, users, profiles, client, ocrCall, request, authReq>>

\* processImage: getImageFileSize(photoUri), which answers 0 when the fetch
\* fails; then compressImage(photoUri) is called with the initial quality
MeasureOriginal(measured) ==
    /\ scanner.mode = "measure"
    /\ scanner' = [scanner EXCEPT !.mode = "compress",
                                  !.originalSize = IF measured THEN scanner.photoSize ELSE 0,
                                  !.quality = INITIAL_COMPRESSION_QUALITY]
    /\ ScannerFrame

\* compressImage(uri, quality): manipulateAsync writes a JPEG of fileSize
\* bytes; either the function calls itself with quality - 0.1, or it returns
\* and processImage stores compressed.uri and compressed.fileSize || 0
CompressAttempt(fileSize) ==
    /\ scanner.mode = "compress"
    /\ ScannerFrame
    /\ LET attempts == Append(scanner.attempts, [quality |-> scanner.quality, fileSize |-> fileSize])
       IN  IF fileSize > MAX_FILE_SIZE /\ scanner.quality > MIN_COMPRESSION_QUALITY
           THEN scanner' = [scanner EXCEPT !.attempts = attempts, !.quality = scanner.quality - 10]
           ELSE scanner' = [scanner EXCEPT !.attempts = attempts,
                                           !.mode = "preview",
                                           !.processedUri = "result.uri",
                                           !.processedSize = fileSize,
                                           !.compressedSize = fileSize,
                                           !.isProcessing = FALSE]

\* manipulateAsync or the fetch of the result throws: compressImage throws
\* 'Failed to compress image' and the catch of processImage shows the alert
CompressThrows ==
    /\ scanner.mode = "compress"
    /\ ScannerFrame
    /\ scanner' = [scanner EXCEPT !.mode = "preview", !.alert = "Error", !.isProcessing = FALSE]

\* handleUsePhoto, the onPress of the Use Photo button (disabled while
\* isProcessing)
HandleUsePhoto ==
    /\ scanner.mode = "preview"
    /\ ~scanner.isProcessing
    /\ ScannerFrame
    /\ IF scanner.compressedSize > 5 * 1024 * 1024
       THEN scanner' = [scanner EXCEPT !.alert = "File Too Large"]
       ELSE scanner' = [scanner EXCEPT !.mode = "used", !.used = <<scanner.processedSize>>]

\* onRetake (disabled while isProcessing): back to the camera, and the next
\* photo mounts a new PhotoPreview
Retake(photoSize) ==
    /\ scanner.mode = "preview"
    /\ ~scanner.isProcessing
    /\ ScannerFrame
    /\ scanner' = Preview(photoSize)

\* ------------------------------------------------------------------ inputs
\* form fields of an upload: none; a type, title and description; the four
\* combinations of processWithOCR and processWithAI; a title with OCR
DocMetas == {NoMeta, [NoMeta EXCEPT !.type = "xray", !.title = "Scan", !.description = "chest"]}
EnrichMetas == {[NoMeta EXCEPT !.processWithOCR = o, !.processWithAI = a] : o, a \in BOOLEAN}
                   \cup {[NoMeta EXCEPT !.type = "xray", !.title = "Scan", !.processWithOCR = TRUE]}
UploadMetas == DocMetas \cup EnrichMetas

\* ------------------------------------------------------------ specifications
\* Spec: quota accounting.  One account uploads JPEG files of the sizes the
\* service accepts and deletes documents; storage and transactions may fail.
StorageFiles == [size : {n \in FileSizes : n <= MAX_FILE_SIZE}, mimetype : {"image/jpeg"}]

Next ==
    \E p \in Procs :
        \/ \E file \in StorageFiles : UploadStart(p, "u1", file, NoMeta)
        \/ UploadS3(p, TRUE)
        \/ UploadS3Fails(p)
        \/ UploadCommit(p)
        \/ UploadDbFails(p)
        \/ \E d \in DocIds : DeleteStart(p, "u1", d)
        \/ DeleteS3(p, TRUE)
        \/ DeleteS3Fails(p)
        \/ DeleteCommit(p)
        \/ DeleteDbFails(p)

Spec == Init /\ [][Next]_vars

\* SpecRoute: the upload endpoint on every file size and MIME type, one
\* request after the other
RouteFiles == [size : FileSizes, mimetype : MimeTypes]

NextRoute ==
    \E p \in {1} :
        \/ \E file \in RouteFiles : UploadStart(p, "u1", file, NoMeta)
        \/ \E thumbOk \in BOOLEAN : UploadS3(p, thumbOk)
        \/ UploadS3Fails(p)
        \/ UploadCommit(p)
        \/ UploadDbFails(p)

SpecRoute == Init /\ [][NextRoute]_vars

\* SpecDocs: documents of one account read, edited and deleted by their
\* owner and by another account, two requests at a time
DocFiles == [size : {1000000}, mimetype : {"image/jpeg"}]
DocUpdates == {NoUpdate,
               [NoUpdate EXCEPT !.title = "Report"],
               [NoUpdate EXCEPT !.notes = "seen", !.type = "xray"]}

NextDocs ==
    \/ \E p \in {1} :
        \/ \E file \in DocFiles, meta \in DocMetas :
              nextId <= EditDocs /\ UploadStart(p, "u1", file, meta)
        \/ UploadS3(p, TRUE)
        \/ UploadCommit(p)
        \/ \E u \in Users, d \in DocIds, upd \in DocUpdates : UpdateStart(p, u, d, upd)
        \/ UpdateWrite(p)
        \/ UpdateGet(p)
    \/ \E p \in {2} :
        \/ \E u \in Users, d \in DocIds : GetDocument(p, u, d)
        \/ \E u \in Users, d \in DocIds : DeleteStart(p, u, d)
        \/ DeleteS3(p, TRUE)
        \/ DeleteCommit(p)

SpecDocs == Init /\ [][NextDocs]_vars

\* SpecEnrich: uploads that ask for OCR and for AI analysis, the two
\* background tasks of each document, and reads and deletes meanwhile
EnrichFiles == [size : {1000000}, mimetype : {"image/jpeg", "application/pdf"}]
OcrOutcomes == {"text", "empty", "error"}
AiOutcomes == {"json", "prose", "null", "throws"}

NextEnrich ==
    \/ \E p \in {1} :
        \/ \E file \in EnrichFiles, meta \in EnrichMetas :
              nextId <= EnrichDocs /\ UploadStart(p, "u1", file, meta)
        \/ \E file \in EnrichFiles, meta \in EnrichMetas :
              nextId <= EnrichDocs /\ UploadQuotaCheckFails(p, "u1", file, meta)
        \/ UploadS3(p, TRUE)
        \/ UploadS3Fails(p)
        \/ UploadCommit(p)
        \/ UploadDbFails(p)
        \/ \E d \in DocIds : GetDocument(p, "u1", d)
        \/ \E d \in DocIds : DeleteStart(p, "u1", d)
        \/ \E thumbOk \in BOOLEAN : DeleteS3(p, thumbOk)
        \/ DeleteS3Fails(p)
        \/ DeleteCommit(p)
        \/ DeleteDbFails(p)
    \/ \E d \in DocIds :
        \/ OcrMarkProcessing(d)
        \/ \E outcome \in OcrOutcomes : OcrExtract(d, outcome)
        \/ OcrResultFailed(d)
        \/ OcrSelect(d)
        \/ OcrUpdateAnalysis(d)
        \/ OcrInsertAnalysis(d)
        \/ OcrInsertUncommitted(d)
        \/ OcrComplete(d)
        \/ OcrCatch(d)
        \/ OcrCatchFails(d)
        \/ \E outcome \in AiOutcomes : AiCall(d, outcome)
        \/ AiInsertAnalysis(d)
        \/ AiInsertUncommitted(d)
        \/ AiComplete(d)
        \/ AiCatch(d)
        \/ AiCatchFails(d)

SpecEnrich == Init /\ [][NextEnrich]_vars

\* SpecAuth: every endpoint behind authenticateToken and /health, requested
\* with no header, a header without token, and tokens that are valid,
\* expired or signed with another key
ProtectedRoutes == {"POST /api/documents/upload", "GET /api/documents/my-documents",
                    "GET /api/documents/:id", "PUT /api/documents/:id",
                    "DELETE /api/documents/:id", "GET /api/documents/storage/info",
                    "GET /api/profile", "PUT /api/profile"}
OpenRoutes == {"GET /health"}
AuthTokens == {Token("u1", "JWT_SECRET", FALSE), Token("u2", "JWT_SECRET", FALSE),
               Token("u1", "JWT_SECRET", TRUE), Token("u2", "other", FALSE)}
AuthHeaders == {NoHeader, Header(<<"Bearer">>)} \cup {Header(<<"Bearer", t>>) : t \in AuthTokens}
ProfileBodies == {[fullName |-> "Asha", gender |-> "female", bloodType |-> "O+"],
                  [fullName |-> "Asha", gender |-> "female", bloodType |-> Undefined],
                  [fullName |-> "Asha", gender |-> "female", bloodType |-> "X"]}

NextAuth ==
    \E p \in {1} :
        \/ \E route \in ProtectedRoutes \cup OpenRoutes, authHeader \in AuthHeaders :
              Receive(p, route, authHeader)
        \/ \E route \in ProtectedRoutes : Unauthenticated(p, route)
        \/ /\ Authenticated(p, "POST /api/documents/upload")
           /\ nextId <= AuthDocs
           /\ \E file \in DocFiles : UploadStart(p, UserId(p), file, NoMeta)
        \/ UploadS3(p, TRUE)
        \/ UploadCommit(p)
        \/ Authenticated(p, "GET /api/documents/my-documents") /\ GetUserDocuments(p, UserId(p))
        \/ /\ Authenticated(p, "GET /api/documents/:id")
           /\ \E d \in DocIds : GetDocument(p, UserId(p), d)
        \/ /\ Authenticated(p, "PUT /api/documents/:id")
           /\ \E d \in DocIds : UpdateStart(p, UserId(p), d, [NoUpdate EXCEPT !.title = "Report"])
        \/ UpdateWrite(p)
        \/ UpdateGet(p)
        \/ /\ Authenticated(p, "DELETE /api/documents/:id")
           /\ \E d \in DocIds : DeleteStart(p, UserId(p), d)
        \/ DeleteS3(p, TRUE)
        \/ DeleteCommit(p)
        \/ Authenticated(p, "GET /api/documents/storage/info") /\ GetStorageInfo(p, UserId(p))
        \/ Authenticated(p, "GET /api/profile") /\ GetProfile(p, UserId(p))
        \/ /\ Authenticated(p, "PUT /api/profile")
           /\ \E body \in ProfileBodies : UpdateProfile(p, UserId(p), body)
        \/ request[p].route = "GET /health" /\ Health(p)

SpecAuth == Init /\ [][NextAuth]_vars

\* SpecAccounts: registrations and logins, two at a time, with phone
\* numbers and passwords that pass and that fail the validations
Phones == {Nepal("1"), Nepal("3"), <<" ">> \o Nepal("4"), <<"9", "8", "0">>,
           <<"+", "9", "7", "7", "-">> \o SubSeq(Nepal("5"), 5, 14)}
Passwords == {SeedPassword, <<"p", "a", "s", "s", "w", "o", "r", "d">>, <<"a", "b", "1">>}

NextAccounts ==
    \E p \in Procs :
        \/ \E phoneNumber \in Phones, password \in Passwords : RegisterStart(p, phoneNumber, password)
        \/ RegisterSelect(p)
        \/ RegisterInsertUser(p)
        \/ RegisterInsertProfile(p)
        \/ RegisterCommit(p)
        \/ \E phoneNumber \in Phones, password \in Passwords : Login(p, phoneNumber, password)

SpecAccounts == Init /\ [][NextAccounts]_vars

\* SpecClient: one mobile client that logs in and out, calls the document
\* and profile endpoints, and keeps its token past expiry
ClientRoutes == {"POST /api/documents/upload", "GET /api/documents/my-documents",
                 "GET /api/documents/:id", "DELETE /api/documents/:id",
                 "GET /api/documents/storage/info", "GET /api/profile", "PUT /api/profile"}
ClientPasswords == {SeedPassword, <<"p", "a", "s", "s", "w", "o", "r", "d">>}
Serving(p) == client.state = "waiting" /\ pc[p] = "idle"

NextClient ==
    \E p \in {1} :
        \/ \E phoneNumber \in {Nepal("1"), Nepal("2")}, password \in ClientPasswords :
              ClientLogin(p, phoneNumber, password)
        \/ /\ client.state = "login"
           /\ authReq[p].pc = "idle"
           /\ Login(p, client.credentials[1], client.credentials[2])
        \/ ClientLoginReceive(p)
        \/ ClientLogout
        \/ TokenExpires
        \/ \E route \in ClientRoutes : ClientSend(p, route)
        \/ ClientReceive(p)
        \/ Serving(p) /\ \E route \in ProtectedRoutes : Unauthenticated(p, route)
        \/ /\ Serving(p) /\ Authenticated(p, "POST /api/documents/upload")
           /\ nextId <= AuthDocs
           /\ \E file \in DocFiles : UploadStart(p, UserId(p), file, NoMeta)
        \/ UploadS3(p, TRUE)
        \/ UploadCommit(p)
        \/ /\ Serving(p) /\ Authenticated(p, "GET /api/documents/my-documents")
           /\ GetUserDocuments(p, UserId(p))
        \/ /\ Serving(p) /\ Authenticated(p, "GET /api/documents/:id")
           /\ \E d \in DocIds : GetDocument(p, UserId(p), d)
        \/ /\ Serving(p) /\ Authenticated(p, "DELETE /api/documents/:id")
           /\ \E d \in DocIds : DeleteStart(p, UserId(p), d)
        \/ DeleteS3(p, TRUE)
        \/ DeleteCommit(p)
        \/ /\ Serving(p) /\ Authenticated(p, "GET /api/documents/storage/info")
           /\ GetStorageInfo(p, UserId(p))
        \/ Serving(p) /\ Authenticated(p, "GET /api/profile") /\ GetProfile(p, UserId(p))
        \/ /\ Serving(p) /\ Authenticated(p, "PUT /api/profile")
           /\ \E body \in ProfileBodies : UpdateProfile(p, UserId(p), body)

SpecClient == Init /\ [][NextClient]_vars

\* SpecOcr: extractText on every MIME type and every answer of the Vision
\* API with up to MaxRegions word annotations after the full-text one
Annotations == [description : {<<>>, <<"Hb">>}, confidence : {0, 80, 90}, locale : {"", "ne"}]
AnnotationLists == UNION {[1..n -> Annotations] : n \in 0..(MaxRegions + 1)}
VisionAnswers ==
    {[kind |-> "timeout"]}
    \cup {[kind |-> "throws", code |-> c, quota |-> q] : c \in {8, 13}, q \in BOOLEAN}
    \cup {[kind |-> "error", code |-> c] :
              c \in {"UNAVAILABLE", "INVALID_ARGUMENT", "RESOURCE_EXHAUSTED"}}
    \cup {[kind |-> "result", textAnnotations |-> l] : l \in AnnotationLists}

InitOcr ==
    /\ InitDocuments /\ InitAccounts /\ InitAuthReq /\ InitRequest /\ InitClient /\ InitScanner
    /\ ocrCall \in [mimeType : MimeTypes, vision : VisionAnswers, result : {NoOcrResult}]

NextOcr == ExtractText

SpecOcr == InitOcr /\ [][NextOcr]_vars

\* SpecScanner: photos below, at and above 5 MB go through the preview;
\* each compression yields a file of any of these sizes or fails
PhotoSizes == {3000000, MAX_FILE_SIZE, MAX_FILE_SIZE + 1, 8000000}

InitScan ==
    /\ InitDocuments /\ InitAccounts /\ InitAuthReq /\ InitRequest /\ InitClient /\ InitOcrCall
    /\ scanner \in {Preview(photoSize) : photoSize \in PhotoSizes}

NextScanner ==
    \/ \E measured \in BOOLEAN : MeasureOriginal(measured)
    \/ \E fileSize \in PhotoSizes : CompressAttempt(fileSize)
    \/ CompressThrows
    \/ HandleUsePhoto
    \/ \E photoSize \in PhotoSizes : Retake(photoSize)

SpecScanner == InitScan /\ [][NextScanner]_vars

\* SpecOverlap: account u1 uploads through both request slots, so that its
\* uploads overlap; account u2 uploads through the first slot only, one
\* upload after the other
OverlapFiles == [size : {1000000, 5000000}, mimetype : {"image/jpeg"}]

NextOverlap ==
    \/ \E p \in Procs :
        \/ \E file \in OverlapFiles : UploadStart(p, "u1", file, NoMeta)
        \/ UploadS3(p, TRUE)
        \/ UploadCommit(p)
    \/ \E p \in {1} :
        \E file \in OverlapFiles : UploadStart(p, "u2", file, NoMeta)

SpecOverlap == Init /\ [][NextOverlap]_vars

\* the next step of the OCR task, of the AI task of document d: the
\* continuation of the promise the task awaits
OcrStep(d) ==
    \/ OcrMarkProcessing(d)
    \/ \E outcome \in OcrOutcomes : OcrExtract(d, outcome)
    \/ OcrResultFailed(d)
    \/ OcrSelect(d)
    \/ OcrUpdateAnalysis(d)
    \/ OcrInsertAnalysis(d)
    \/ OcrInsertUncommitted(d)
    \/ OcrComplete(d)
    \/ OcrCatch(d)
    \/ OcrCatchFails(d)
AiStep(d) ==
    \/ \E outcome \in AiOutcomes : AiCall(d, outcome)
    \/ AiInsertAnalysis(d)
    \/ AiInsertUncommitted(d)
    \/ AiComplete(d)
    \/ AiCatch(d)
    \/ AiCatchFails(d)

\* every awaited query and external call of a started task settles (the
\* Vision call is raced against a 10 s timer), and the event loop then runs
\* the continuation
SpecEnrichLive ==
    /\ SpecEnrich
    /\ \A d \in DocIds : WF_vars(OcrStep(d)) /\ WF_vars(AiStep(d))

\* ------------------------------------------------------------------ claims
\* sum of file_size over the rows of documents that belong to user u
RECURSIVE SumFileSize(_)
SumFileSize(rows) ==
    IF rows = {} THEN 0
    ELSE LET d == CHOOSE x \in rows : TRUE
         IN  documents[d].file_size + SumFileSize(rows \ {d})
DocumentsOf(u) == {d \in DOMAIN documents : documents[d].user_id = u}

\* the upload passed multer and the size and MIME checks of the service, so
\* that checkStorageQuota is called
ReachesQuotaCheck(file) ==
    multerAccepts(file) /\ file.size <= MAX_FILE_SIZE /\ file.mimetype \in allowedTypes

\* the step is one of the handler in slot p; Started: its first
Stepped(p) == <<pc[p], loc[p], resp[p]>> # <<pc'[p], loc'[p], resp'[p]>>
Started(p, op) == Free(p) /\ Stepped(p) /\ loc'[p].op = op

\* the request was turned down and nothing of it is left to run
Rejected(p, status, code) ==
    /\ pc'[p] = "done"
    /\ resp'[p].status = status
    /\ resp'[p].code = code
    /\ ~resp'[p].success
    /\ UNCHANGED <<storage_used, documents, analysis, objects, ocr, ai>>

\* C1: an upload that reaches the quota check while storageUsed + file.size >
\* storageQuota is answered STORAGE_QUOTA_EXCEEDED, creates no object and no
\* row, starts no task and leaves storageUsed unchanged.
C1_QuotaExceededRejected ==
    [][\A p \in Procs, u \in Users, file \in RouteFiles, meta \in UploadMetas :
          (/\ UploadStart(p, u, file, meta)
           /\ ReachesQuotaCheck(file)
           /\ storage_used[u] + file.size > storage_quota[u])
          => Rejected(p, 400, "STORAGE_QUOTA_EXCEEDED")]_vars

\* C2: in every committed state each user's storageUsed is the sum of
\* fileSize over the user's existing documents.
C2_StorageUsedIsSum ==
    \A u \in Users : storage_used[u] = SumFileSize(DocumentsOf(u))

\* C3: a successful deleteDocument removes the row and sets storageUsed to
\* max(storageUsed - fileSize, 0) for the fileSize stored at upload; a delete
\* of an id whose document was deleted before answers NOT_FOUND and leaves
\* storageUsed unchanged.
C3_DeleteDecrementsOnce ==
    [][/\ \A p \in Procs :
            (pc[p] = "delete_db" /\ pc'[p] = "done" /\ resp'[p].success)
            => /\ loc[p].doc \notin DOMAIN documents'
               /\ storage_used'[loc[p].user] =
                      Max(storage_used[loc[p].user] - uploaded[loc[p].doc].fileSize, 0)
       /\ \A p \in Procs :
            (/\ Started(p, "delete")
             /\ uploaded[loc'[p].doc] # NoDocument
             /\ loc'[p].doc \notin DOMAIN documents)
            => Rejected(p, 404, "NOT_FOUND")]_vars

\* a delete succeeded, and a later delete of the same id was answered NOT_FOUND
C3_Witness ==
    \E p, q \in Procs :
        /\ pc[p] = "done" /\ loc[p].op = "delete" /\ resp[p].success
        /\ pc[q] = "done" /\ loc[q].op = "delete" /\ resp[q].code = "NOT_FOUND"
        /\ loc[q].doc = loc[p].doc
        /\ uploaded[loc[p].doc] # NoDocument
        /\ storage_used["u1"] > 0

\* C4: every upload of a file larger than 5 MB is answered 400
\* FILE_TOO_LARGE and changes nothing.
C4_TooLargeIs400 ==
    [][\A p \in Procs, u \in Users, file \in RouteFiles, meta \in UploadMetas :
          (UploadStart(p, u, file, meta) /\ file.size > MAX_FILE_SIZE)
          => Rejected(p, 400, "FILE_TOO_LARGE")]_vars

\* C5: the endpoint's MIME filter is the allow-list {jpeg, jpg, png, gif,
\* pdf}: a listed type within the size and quota limits is stored, any other
\* type is answered 400 UNSUPPORTED_FILE_TYPE.
ClaimedAllowList == {"image/jpeg", "image/jpg", "image/png", "image/gif", "application/pdf"}
C5_MimeAllowList ==
    [][\A p \in Procs, u \in Users, file \in RouteFiles, meta \in UploadMetas :
          UploadStart(p, u, file, meta)
          => /\ (file.mimetype \notin ClaimedAllowList /\ file.size <= MAX_FILE_SIZE)
                    => Rejected(p, 400, "UNSUPPORTED_FILE_TYPE")
             /\ (/\ file.mimetype \in ClaimedAllowList
                 /\ file.size <= MAX_FILE_SIZE
                 /\ storage_used[u] + file.size <= storage_quota[u])
                    => pc'[p] = "upload_s3"]_vars

\* C6: with no other upload in flight, an upload of size s at usage u is
\* accepted whenever u + s <= storageQuota and then leaves storageUsed =
\* u + s; otherwise it is answered STORAGE_QUOTA_EXCEEDED with the message
\* reporting quota - u as remaining.
NoOtherUpload(p) == \A q \in Procs \ {p} : pc[q] \notin {"upload_s3", "upload_db"}
C6_SequentialQuota ==
    [][/\ \A p \in Procs, u \in Users, file \in RouteFiles, meta \in UploadMetas :
            (UploadStart(p, u, file, meta) /\ NoOtherUpload(p))
            => IF storage_used[u] + file.size <= storage_quota[u]
               THEN pc'[p] = "upload_s3"
               ELSE /\ Rejected(p, 400, "STORAGE_QUOTA_EXCEEDED")
                    /\ resp'[p].message[1] = formatFileSize(storage_quota[u] - storage_used[u])
       /\ \A p \in Procs :
            (pc[p] = "upload_db" /\ pc'[p] = "done" /\ resp'[p].success /\ NoOtherUpload(p))
            => storage_used'[loc[p].user] = storage_used[loc[p].user] + loc[p].file.size]_vars

\* C7: a getDocument by the owner of an uploaded document that no update has
\* written to returns the type, title, fileSize and mimeType of the upload
\* response, and status pending_processing when processWithAI was not
\* requested; the fileSize of the upload response is the number of bytes put
\* in the bucket.
C7_RoundTrip ==
    [][/\ \A p \in Procs, u \in Users, d \in DocIds :
            (/\ GetDocument(p, u, d)
             /\ uploaded[d] # NoDocument
             /\ d \in DOMAIN documents /\ documents[d].user_id = u
             /\ d \notin edited)
            => /\ resp'[p].success /\ resp'[p].status = 200
               /\ resp'[p].data.id = d
               /\ resp'[p].data.type = uploaded[d].type
               /\ resp'[p].data.title = uploaded[d].title
               /\ resp'[p].data.fileSize = uploaded[d].fileSize
               /\ resp'[p].data.mimeType = uploaded[d].mimeType
               /\ (ai[d] = NoTask => resp'[p].data.status = "pending_processing")
       /\ \A p \in Procs :
            (pc[p] = "upload_db" /\ pc'[p] = "done" /\ resp'[p].success)
            => /\ resp'[p].status = 201
               /\ resp'[p].data.fileSize = loc[p].file.size
               /\ resp'[p].data.fileSize = objects[extractFileNameFromUrl(resp'[p].data.fileUrl)]]_vars

\* a titled document uploaded without processWithAI is fetched after its OCR
\* task has completed
C7_Witness ==
    \E p \in Procs :
        /\ pc[p] = "done" /\ loc[p].op = "get" /\ resp[p].success
        /\ resp[p].data.title = "Scan"
        /\ resp[p].data.ocrStatus = "completed"
        /\ resp[p].data.status = "pending_processing"
        /\ ai[loc[p].doc] = NoTask

\* C8: getDocument, updateDocument and deleteDocument by an account that
\* does not own the document answer 404 NOT_FOUND, the answer for an id that
\* does not exist, and change no row, analysis, object or storageUsed.
C8_NotOwnerIsNotFound ==
    [][\A p \in Procs :
          (/\ Started(p, "get") \/ Started(p, "update") \/ Started(p, "delete")
           /\ \/ loc'[p].doc \notin DOMAIN documents
              \/ documents[loc'[p].doc].user_id # loc'[p].user)
          => /\ Rejected(p, 404, "NOT_FOUND")
             /\ resp'[p] = ErrorResponse(404, "NOT_FOUND", <<>>)]_vars

\* another account's delete of an existing document was answered NOT_FOUND
C8_Witness ==
    \E p \in Procs :
        /\ pc[p] = "done" /\ loc[p].op = "delete" /\ resp[p].code = "NOT_FOUND"
        /\ loc[p].doc \in DOMAIN documents
        /\ documents[loc[p].doc].user_id # loc[p].user
        /\ \E k \in DOMAIN objects : TRUE

\* C9: every step of an updateDocument leaves storageUsed, the analysis rows,
\* the objects and the set of documents as they are and changes a field of a
\* row only if it is a provided field of the addressed document, to the
\* provided value; with no field provided it changes nothing and answers with
\* the current document.
C9_UpdateFrame ==
    [][\A p \in Procs :
          (Stepped(p) /\ loc'[p].op = "update")
          => /\ UNCHANGED <<storage_used, analysis, objects>>
             /\ DOMAIN documents' = DOMAIN documents
             /\ \A d \in DOMAIN documents : \A f \in DOMAIN documents[d] :
                    documents'[d][f] # documents[d][f]
                    => /\ d = loc'[p].doc
                       /\ f \in ProvidedFields(loc'[p].upd)
                       /\ documents'[d][f] = loc'[p].upd[f]
             /\ (pc[p] = "update_db" /\ loc[p].doc \in DOMAIN documents)
                    => \A f \in ProvidedFields(loc[p].upd) :
                           documents'[loc[p].doc][f] = loc[p].upd[f]
             /\ ProvidedFields(loc'[p].upd) = {}
                    => /\ UNCHANGED documents
                       /\ (pc'[p] = "done" /\ resp'[p].success)
                              => resp'[p].data = mapDbDocumentToDocument(loc'[p].doc,
                                     DbRow(documents[loc'[p].doc]), Joined(loc'[p].doc))]_vars

\* an update that provided only the title has been answered with the new
\* title and the description of the upload
C9_Witness ==
    \E p \in Procs :
        /\ pc[p] = "done" /\ loc[p].op = "update" /\ resp[p].success
        /\ loc[p].upd.title = "Report" /\ loc[p].upd.description = Undefined
        /\ resp[p].data.title = "Report"
        /\ resp[p].data.description = "chest"
        /\ uploaded[loc[p].doc].title = "Scan"

DataOf(u) ==
    <<storage_used[u],
      {<<d, documents[d]>> : d \in {e \in DOMAIN documents : documents[e].user_id = u}},
      {<<d, analysis[d]>> : d \in {e \in DOMAIN analysis \cap DOMAIN documents : documents[e].user_id = u}},
      {<<k, objects[k]>> : k \in {j \in DOMAIN objects : j[1] = u}},
      users[u]>>

\* the header carries a token that JWT_SECRET signed and that has not expired
Verifiable(authHeader) ==
    /\ authHeader.present
    /\ Len(authHeader.words) >= 2
    /\ authHeader.words[2].key = "JWT_SECRET"
    /\ ~authHeader.words[2].expired

\* C12: a request to an endpoint of /api/documents or /api/profile whose
\* header carries no verifiable token is answered 401 or 403 with no handler
\* run and nothing read into the answer or changed; with a verifiable token
\* the handler runs as the user id of the payload, answers only with rows of
\* that account, and every change to an account's data is made by a request
\* carrying a verifiable token of that account; /health answers without one.
C12_TokenRequired ==
    [][/\ \A p \in Procs :
            (Free(p) /\ Stepped(p) /\ request[p].route \in ProtectedRoutes)
            => IF ~Verifiable(request[p].authorization)
               THEN /\ pc'[p] = "done"
                    /\ resp'[p] \in {ErrorResponse(401, "UNAUTHORIZED", <<>>),
                                     ErrorResponse(403, "FORBIDDEN", <<>>)}
                    /\ loc'[p] = NoLoc
                    /\ UNCHANGED <<documentVars, users, profiles>>
               ELSE /\ loc'[p].user = request[p].authorization.words[2].userId
                    /\ (request[p].route = "GET /api/documents/:id" /\ resp'[p].success)
                          => resp'[p].data.userId = loc'[p].user
                    /\ request[p].route = "GET /api/documents/my-documents"
                          => \A row \in resp'[p].data.rows : row.userId = loc'[p].user
                    /\ (request[p].route = "GET /api/profile" /\ resp'[p].success)
                          => resp'[p].data = mapDbUserToUser(loc'[p].user, users[loc'[p].user])
       /\ \A u \in Users :
            DataOf(u)' # DataOf(u)
            => \E p \in Procs :
                  /\ Stepped(p)
                  /\ request[p].route \in ProtectedRoutes
                  /\ Verifiable(request[p].authorization)
                  /\ request[p].authorization.words[2].userId = u
       /\ \A p \in Procs :
            (Free(p) /\ Stepped(p) /\ request[p].route = "GET /health")
            => resp'[p].status = 200]_vars

\* a delete carrying an expired token of the owner was answered 403 and the
\* document is still there
C12_Witness ==
    \E p \in Procs :
        /\ pc[p] = "done"
        /\ request[p] = [route |-> "DELETE /api/documents/:id",
                         authorization |-> Header(<<"Bearer", Token("u1", "JWT_SECRET", TRUE)>>)]
        /\ resp[p] = ErrorResponse(403, "FORBIDDEN", <<>>)
        /\ \E d \in DOMAIN documents : documents[d].user_id = "u1"

\* the step takes a new request to /api/auth into slot p
AuthStarted(p, op) == AuthFree(p) /\ authReq'[p] # authReq[p] /\ authReq'[p].op = op
PasswordMessages == {"Password must be at least 8 characters",
                     "Password must contain at least one number"}

\* C13: a register or login request whose phone number does not match
\* ^\+977\d{10}$ is answered with a validation error at once, and no
\* password check has contributed to the answer.
C13_InvalidPhoneRejectedFirst ==
    [][\A p \in Procs :
          (/\ AuthStarted(p, "register") \/ AuthStarted(p, "login")
           /\ ~MatchesNepal(authReq'[p].body[1]))
          => /\ authReq'[p].pc = "done"
             /\ authReq'[p].resp.status = 400
             /\ authReq'[p].resp.code = "VALIDATION_ERROR"
             /\ authReq'[p].resp.details \cap PasswordMessages = {}]_vars

\* C14: a registration that passed the validations ends with 201, its user
\* and a token, or with 409 DUPLICATE_PHONE; no two users share a phone
\* number; users and profiles appear only together, at the 201 answer.
C14_RegisterRace ==
    [][/\ \A p \in Procs :
            (authReq[p].op = "register" /\ ~AuthFree(p) /\ authReq'[p].pc = "done")
            => \/ /\ authReq'[p].resp.status = 201
                  /\ authReq'[p].resp.user \in DOMAIN users' \ DOMAIN users
                  /\ authReq'[p].resp.token # <<>>
               \/ /\ authReq'[p].resp.status = 409
                  /\ authReq'[p].resp.code = "DUPLICATE_PHONE"
                  /\ UNCHANGED <<users, profiles>>
       /\ \A u, v \in DOMAIN users' : users'[u].phone_number = users'[v].phone_number => u = v
       /\ DOMAIN users' = DOMAIN profiles'
       /\ \A u \in DOMAIN users' \ DOMAIN users :
            \E p \in Procs : authReq'[p].resp.status = 201 /\ authReq'[p].resp.user = u]_vars

\* C15: when the answer to a request sent with the stored token is the
\* backend's rejection of that token as invalid or expired, the client has
\* removed the token once the answer is handled: isAuthenticated() is false.
C15_RejectedTokenRemoved ==
    [][\A p \in {1} :
          (/\ client.state = "waiting" /\ client'.state = "idle"
           /\ request[p].authorization = RequestInterceptor
           /\ client.token # <<>>
           /\ resp[p] = ErrorResponse(403, "FORBIDDEN", <<>>)
                \/ resp[p] = ErrorResponse(401, "UNAUTHORIZED", <<>>))
          => ~isAuthenticated']_vars

\* C16: extractText on a supported image for which the engine returns zero
\* text regions succeeds with text "" and confidence 100.
C16_NoRegionsConfidence100 ==
    (/\ ocrCall.result # NoOcrResult
     /\ isSupportedImageType(ocrCall.mimeType)
     /\ ocrCall.vision.kind = "result"
     /\ Len(ocrCall.vision.textAnnotations) = 0)
    => /\ ocrCall.result.success
       /\ ocrCall.result.text = <<>>
       /\ ocrCall.result.confidence = 100

\* C17: onUsePhoto is invoked only with an image of at most 5 MB; pressing
\* Use Photo while the image shown is larger shows 'File Too Large' and
\* stays in the preview.
C17_UsePhotoAtMost5MB ==
    [][/\ scanner'.used # <<>> => scanner'.used[1] <= 5 * 1024 * 1024
       /\ (/\ scanner.mode = "preview"
           /\ scanner' # scanner
           /\ scanner'.photoSize = scanner.photoSize
           /\ scanner'.mode # "measure"
           /\ scanner.processedSize > 5 * 1024 * 1024)
          => /\ scanner'.mode = "preview"
             /\ scanner'.alert = "File Too Large"]_vars

\* C18: compressImage compresses first at 85, again only after a result above
\* 5 MB and then 10 points lower, only at 85, 75 and 65, never below 60, and
\* so at most three times.
C18_CompressionQualities ==
    /\ Len(scanner.attempts) <= 3
    /\ \A i \in 1..Len(scanner.attempts) :
          /\ scanner.attempts[i].quality \in {85, 75, 65}
          /\ scanner.attempts[i].quality >= MIN_COMPRESSION_QUALITY
          /\ i = 1 => scanner.attempts[i].quality = INITIAL_COMPRESSION_QUALITY
          /\ i > 1 => /\ scanner.attempts[i].quality = scanner.attempts[i - 1].quality - 10
                      /\ scanner.attempts[i - 1].fileSize > MAX_FILE_SIZE

\* C19: when the OCR task and the AI task of a document have both ended and
\* both external calls succeeded, ocr_status is completed, status is
\* processed and the document has its analysis row, whatever the order of
\* the steps of the two tasks was.
C19_BothTasksComplete ==
    \A d \in DOMAIN documents :
        (/\ ocr[d].pc = "done" /\ ocr[d].result = "text"
         /\ ai[d].pc = "done" /\ ai[d].result \in {"json", "prose"})
        => /\ documents[d].ocr_status = "completed"
           /\ documents[d].status = "processed"
           /\ d \in DOMAIN analysis

\* C20: the uploads of an account that never overlap keep storageUsed within
\* storageQuota, while uploads that read storageUsed before the other
\* commits both pass the check and both commit, and storageUsed above
\* storageQuota is reached.
C20_SequentialWithinQuota ==
    /\ storage_used["u2"] <= storage_quota["u2"]
    /\ \A p \in Procs :
          (pc[p] = "upload_s3" /\ loc[p].user = "u2")
          => storage_used["u2"] + loc[p].file.size <= storage_quota["u2"]

\* committed uploads of u1, two of which overlapped, have taken storageUsed
\* above storageQuota
C20_Witness ==
    /\ storage_used["u1"] > storage_quota["u1"]
    /\ storage_used["u1"] = SumFileSize(DocumentsOf("u1"))
    /\ \A p \in Procs : Free(p)

\* the step of slot p is one in which a database statement or the storage
\* upload of uploadDocument fails
UploadFails(p) ==
    \/ \E file \in EnrichFiles, meta \in EnrichMetas : UploadQuotaCheckFails(p, "u1", file, meta)
    \/ UploadS3Fails(p)
    \/ UploadDbFails(p)

\* C21: when the storage upload or a database statement of uploadDocument
\* fails, the call answers SERVER_ERROR, no document row is added,
\* storageUsed is unchanged, no OCR or AI task is started, and no object
\* already written to storage is removed.
C21_FailedUploadLeavesNothing ==
    [][\A p \in Procs :
          UploadFails(p)
          => /\ resp'[p].code = "SERVER_ERROR"
             /\ documents' = documents
             /\ storage_used' = storage_used
             /\ ocr' = ocr /\ ai' = ai
             /\ \A k \in DOMAIN objects : k \in DOMAIN objects']_vars
\* C22: when the OCR path of a document fails (an error result, which
\* includes the timeout, or a database error while storing the text) its
\* ocr_status eventually is failed, and when the AI path fails (the call
\* throws, or a database error while storing the analysis) its status
\* eventually is failed, unless the document is deleted; no step of a task
\* changes a response.
C22_FailureEventuallyRecorded ==
    /\ \A d \in DocIds :
          /\ (ocr[d].pc \in {"failed_result", "catch"})
                ~> (d \notin DOMAIN documents \/ documents[d].ocr_status = "failed")
          /\ (ai[d].pc = "catch")
                ~> (d \notin DOMAIN documents \/ documents[d].status = "failed")
    /\ [][(\E d \in DocIds : OcrStep(d) \/ AiStep(d)) => resp' = resp]_vars
\* C23: whatever the order of the steps of deleteDocument and of the OCR and
\* AI tasks of the document, every analysis row belongs to an existing
\* document; a step of a task neither adds nor removes a document row nor
\* changes storage_used; and a task's INSERT succeeds only for a document
\* that exists and has no analysis row yet, so that no document has two.
C23_NoAnalysisAfterDelete ==
    /\ [](\A d \in DOMAIN analysis : d \in DOMAIN documents)
    /\ [][\A d \in DocIds :
             /\ (OcrStep(d) \/ AiStep(d))
                => DOMAIN documents' = DOMAIN documents /\ storage_used' = storage_used
             /\ (\/ ocr[d].pc = "insert" /\ ocr'[d].pc = "complete"
                 \/ ai[d].pc = "insert" /\ ai'[d].pc = "complete")
                => d \in DOMAIN documents /\ d \notin DOMAIN analysis]_vars

\* the document was deleted while its AI task, the only task it had, was
\* waiting for the model's reply: the late INSERT has failed on the foreign
\* key and no row was stored
C23_Witness ==
    \E d \in DocIds :
        /\ d \notin DOMAIN documents
        /\ ocr[d] = NoTask
        /\ ai[d].pc = "catch" /\ ai[d].result = "json"
        /\ analysis = << >>
        /\ resp[1] = SuccessResponse(200, NoDocument)
\* C24: a deleteDocument whose primary object was deleted goes on to its
\* database statements whether or not the thumbnail object could be deleted,
\* and its commit removes the row and takes file_size off storage_used
\* (not below 0) and answers success; a deleteDocument whose primary object
\* could not be deleted answers SERVER_ERROR and leaves the document rows,
\* the analysis rows and storage_used as they were.
C24_ThumbnailBestEffort ==
    [][\A p \in Procs :
          /\ (/\ pc[p] = "delete_s3"
              /\ extractFileNameFromUrl(loc[p].fileUrl) \in DOMAIN objects
              /\ extractFileNameFromUrl(loc[p].fileUrl) \notin DOMAIN objects')
             => pc'[p] = "delete_db" /\ resp'[p] = resp[p]
          /\ (pc[p] = "delete_db" /\ resp'[p].success)
             => /\ loc[p].doc \notin DOMAIN documents'
                /\ loc[p].doc \notin DOMAIN analysis'
                /\ storage_used'[loc[p].user] =
                      Max(storage_used[loc[p].user] - ParseInt(loc[p].fileSize), 0)
                /\ resp'[p].status = 200
          /\ DeleteS3Fails(p)
             => /\ resp'[p] = ErrorResponse(500, "SERVER_ERROR", <<>>)
                /\ documents' = documents
                /\ analysis' = analysis
                /\ storage_used' = storage_used]_vars

\* a delete has succeeded although its thumbnail object is still in the
\* bucket: the row is gone, the primary object is gone, storage_used is 0
C24_Witness ==
    /\ loc[1].op = "delete"
    /\ resp[1] = SuccessResponse(200, NoDocument)
    /\ loc[1].thumbnailUrl \notin {NullUrl, EmptyUrl}
    /\ extractFileNameFromUrl(loc[1].thumbnailUrl) \in DOMAIN objects
    /\ extractFileNameFromUrl(loc[1].fileUrl) \notin DOMAIN objects
    /\ loc[1].doc \notin DOMAIN documents
    /\ storage_used["u1"] = 0
\* C25: a reply that is not JSON is stored with the raw reply as summary,
\* no extracted text and an empty insights list, and the document then
\* becomes processed; and the AI task reaches its catch, which sets status
\* to failed, only because the call threw or the INSERT failed, never
\* because of the reply itself.
C25_ReplyFormNeverFails ==
    [][\A d \in DocIds :
          /\ (/\ ai[d].pc = "insert" /\ ai[d].result = "prose" /\ ai'[d].pc = "complete"
              /\ d \in DOMAIN analysis')
             => analysis'[d] = [extracted_text |-> Null, summary |-> "raw reply", insights |-> "{}"]
          /\ (ai[d].pc = "complete" /\ ai'[d].pc = "done" /\ d \in DOMAIN documents)
             => documents'[d].status = "processed"
          /\ (ai[d].pc # "catch" /\ ai'[d].pc = "catch")
             => \/ ai[d].pc = "start" /\ ai'[d].result = ""
                \/ ai[d].pc = "insert" /\ InsertAnalysisFails(d)]_vars
\* the Vision API reports that the quota is used up: the call rejects with
\* code 8 or a message that names the quota, or the response carries an
\* error whose code is RESOURCE_EXHAUSTED
QuotaExceeded(vision) ==
    \/ vision.kind = "throws" /\ (vision.code = 8 \/ vision.quota)
    \/ vision.kind = "error" /\ vision.code = "RESOURCE_EXHAUSTED"

\* C26: every extractText call returns a result, and a failure carries a
\* code; for a MIME type that is no supported image the result is
\* UNSUPPORTED_TYPE, not retryable, whatever the engine would have answered;
\* a call that runs into the 10 s timer gives TIMEOUT, retryable; a
\* quota-exceeded failure gives an error that is not retryable and whose
\* code is not TIMEOUT.
C26_FailuresClassified ==
    ocrCall.result # NoOcrResult
    => LET result == ocrCall.result
           supported == isSupportedImageType(ocrCall.mimeType)
       IN  /\ ~result.success => result.code # ""
           /\ ~supported => result = OcrFailure("UNSUPPORTED_TYPE", FALSE)
           /\ (supported /\ ocrCall.vision.kind = "timeout")
              => result = OcrFailure("TIMEOUT", TRUE)
           /\ (supported /\ QuotaExceeded(ocrCall.vision))
              => ~result.success /\ ~result.retryable /\ result.code # "TIMEOUT"
\* C27: of two overlapping deleteDocument calls of the owner on one
\* document only one takes file_size off storage_used: the call that
\* reaches its database statements after the row is gone leaves
\* storage_used as it is.
C27_OverlappingDeletesDecrementOnce ==
    [][\A p \in Procs :
          (/\ pc[p] = "delete_db" /\ pc'[p] = "done"
           /\ loc[p].doc \notin DOMAIN documents)
          => storage_used' = storage_used]_vars
\* C28: whenever no call is under way, also after an uploadDocument or a
\* deleteDocument that failed part-way, the file_url of every documents row
\* is the URL of an object that is in the bucket.
C28_FileUrlRefersToObject ==
    (\A p \in Procs : Free(p))
    => \A d \in DOMAIN documents :
          extractFileNameFromUrl(documents[d].file_url) \in DOMAIN objects
\* C29: every document whose status is processed has an analysis row, and
\* every document whose ocr_status is completed has an analysis row.
C29_ProcessedHasAnalysis ==
    \A d \in DOMAIN documents :
        /\ documents[d].status = "processed" => d \in DOMAIN analysis
        /\ documents[d].ocr_status = "completed" => d \in DOMAIN analysis
\* what a failed login is answered with
LoginFailure ==
    [status |-> 401, code |-> "INVALID_CREDENTIALS", message |-> "Invalid phone number or password",
     details |-> {}, user |-> "", token |-> <<>>]

\* C30: a login with a well-formed phone number and a password is answered
\* with the same 401, INVALID_CREDENTIALS, message and no token when no user
\* has the phone number and when the password is not the user's.
C30_FailedLoginIndistinguishable ==
    [][\A p \in Procs :
          (/\ AuthStarted(p, "login")
           /\ MatchesNepal(authReq'[p].phoneNumber)
           /\ authReq'[p].password # <<>>)
          => LET registered == {u \in DOMAIN users :
                                   users[u].phone_number = authReq'[p].phoneNumber}
                 wrong == \A u \in registered :
                             ~bcryptCompare(authReq'[p].password, users[u].password_hash)
             IN  /\ registered = {} => authReq'[p].resp = LoginFailure
                 /\ (registered # {} /\ wrong) => authReq'[p].resp = LoginFailure]_vars

\* two failed logins side by side, one with a phone number no user has, one
\* with the phone number of u1 and another password: the answers are equal
C30_Witness ==
    /\ authReq[1].op = "login" /\ authReq[2].op = "login"
    /\ authReq[1].phoneNumber = Nepal("3")
    /\ \A u \in DOMAIN users : users[u].phone_number # Nepal("3")
    /\ authReq[2].phoneNumber = Nepal("1")
    /\ authReq[2].password # SeedPassword
    /\ authReq[1].resp = authReq[2].resp
    /\ authReq[1].resp.status = 401
====
